---- MODULE Spec2Model ----
(***************************************************************************)
(* Flashcard player: the renderer's PlaybackEngine and TTSService and the  *)
(* main process' cached synthesizeSpeech, as state machines.               *)
(*                                                                         *)
(* One action is one macrotask of the JavaScript event loop (a transport   *)
(* command, a timer, an audio event, an IPC reply) together with every     *)
(* promise continuation it runs before the next macrotask.  Handlers are   *)
(* written as operators from a state record to a state record, so that a   *)
(* handler that calls another one is their composition.                    *)
(***************************************************************************)
EXTENDS Integers, Sequences, FiniteSets, TLC

(* ---- bounds of the model ---- *)
NumEntries == 2          \* entries of the loaded vocabulary file
MaxLoops == 2            \* play()/restartPlayback() calls that start a phase loop

(* ---- program constants ---- *)
PAUSE_AFTER_ENGLISH == 15        \* 1.5 s, in tenths of a second
PAUSE_AFTER_SPANISH_WORD == 8    \* 0.8 s
PAUSE_BETWEEN_ENTRIES == 10      \* 1.0 s
PollMs == 100                    \* waitWhilePaused's setTimeout interval
InitialRate == 10                \* playbackRate 1.0, in tenths
Infinity == 1000000              \* endTime of the constructor's time window

EntrySeconds == 5                \* estimated duration of one entry of the input

LoopIds == 1..MaxLoops

Phases == <<"english", "pause-after-english", "spanish-word",
            "pause-after-spanish-word", "spanish-sentence", "between-entries">>

SpeakPhases == {"english", "spanish-word", "spanish-sentence"}

VARIABLES
  \* PlaybackEngine
  entries,            \* FlashcardEntry[]: cumulativeStartTime, estimatedDuration
  timeWindow,         \* [startTime, endTime]
  isPlaying, isPaused, currentEntryIndex, currentPhase, playbackRate,
  elapsedTime,        \* state.elapsedTime, in tenths of a second
  timeUpdateInterval, \* whether the interval of startTimeTracking() is set
  abortController,    \* id of this.abortController, 0 for null
  aborted,            \* ids of the AbortControllers whose signal is aborted
  loops,              \* the calls of play()/playFromCurrent(), by id
  nLoops,             \* ids handed out so far
  \* TTSService
  isReady,
  audioElement,       \* id of this.audioElement, 0 for null
  audio,              \* by speak call (= id of the calling loop): its request / element
  \* what the callbacks and the console have observed
  sessionKind,        \* "play": play() only so far; "pauseResume": also pause/resume;
                      \* "other": another command was issued or a speak phase failed
  phaseLog,           \* the onPhaseChange calls, while sessionKind is not "other"
  completeCount,      \* the onComplete calls, while sessionKind is not "other"
  stoppedLoops,       \* loops whose session the caller ended with stop()
  lateEffects,        \* what loops of stoppedLoops did in the last macrotask
  navTarget,          \* entry a next/prev/jumpToEntry moved to during a session, while
                      \* no phase has been executed since (-1: none)
  navKept,            \* whether the last macrotask, if such a move, kept isPlaying/isPaused
  navNext,            \* the first phase executed after that move, if the last macrotask ran it
  snapFrom,           \* the index that setTimeWindow replaced in the last macrotask (-1: none)
  \* main process: ttsHandler
  client,             \* whether the ElevenLabs client exists (client !== null)
  apiKey,             \* the trimmed key, "null" for null
  cacheFiles,         \* the .mp3 files of CACHE_DIR: cache key -> bytes
  cacheIndex,         \* cacheIndex.entries: cache key -> CacheEntry
  indexFile,          \* cache-index.json as last written
  calls,              \* the synthesizeSpeech calls, by id
  nCalls,             \* ids handed out so far
  now,                \* Date.now()
  gatewayCalls,       \* the cache keys of the client.textToSpeech.convert calls, in order
  \* main process: audioExporter
  exportRun,          \* the exportAudioFile call: its position, locals and what it reported
  tempDir,            \* the files of TEMP_DIR: path -> content
  outputFile          \* the file at outputPath: "none", "partial" or "complete"

engineVars == <<entries, timeWindow, isPlaying, isPaused, currentEntryIndex, currentPhase,
                playbackRate, elapsedTime, timeUpdateInterval, abortController, aborted, loops, nLoops, isReady,
                audioElement, audio, sessionKind, phaseLog, completeCount,
                stoppedLoops, lateEffects, navTarget, navKept, navNext, snapFrom>>

cacheVars == <<client, apiKey, cacheFiles, cacheIndex, indexFile, calls, nCalls, now,
               gatewayCalls>>

exportVars == <<exportRun, tempDir, outputFile>>

vars == <<engineVars, cacheVars, exportVars>>

(* A loop that does not exist (not started yet, returned or thrown). *)
NoLoop == [pc |-> "none", entry |-> 0, start |-> 0, phase |-> "idle", sig |-> 0, rate |-> 0,
           timer |-> 0, scheduled |-> 0, spent |-> 0, polls |-> 0]

(* The state as one record, and the assignment of a record to the state. *)
Cur == [isPlaying |-> isPlaying, isPaused |-> isPaused,
        currentEntryIndex |-> currentEntryIndex, currentPhase |-> currentPhase,
        playbackRate |-> playbackRate,
        elapsedTime |-> elapsedTime, timeUpdateInterval |-> timeUpdateInterval,
        abortController |-> abortController, aborted |-> aborted,
        loops |-> loops, nLoops |-> nLoops, isReady |-> isReady,
        audioElement |-> audioElement, audio |-> audio,
        sessionKind |-> sessionKind, phaseLog |-> phaseLog,
        completeCount |-> completeCount,
        stoppedLoops |-> stoppedLoops, lateEffects |-> lateEffects,
        navTarget |-> navTarget, navKept |-> navKept, navNext |-> navNext,
        snapFrom |-> snapFrom]

Assign(s) ==
  /\ isPlaying' = s.isPlaying
  /\ isPaused' = s.isPaused
  /\ currentEntryIndex' = s.currentEntryIndex
  /\ currentPhase' = s.currentPhase
  /\ playbackRate' = s.playbackRate
  /\ elapsedTime' = s.elapsedTime
  /\ timeUpdateInterval' = s.timeUpdateInterval
  /\ abortController' = s.abortController
  /\ aborted' = s.aborted \cap {s.loops[l].sig : l \in LoopIds}  \* the signals still held
  /\ loops' = s.loops
  /\ nLoops' = s.nLoops
  /\ isReady' = s.isReady
  /\ audioElement' = s.audioElement
  /\ audio' = s.audio
  /\ phaseLog' = s.phaseLog
  /\ sessionKind' = s.sessionKind
  /\ completeCount' = s.completeCount
  /\ stoppedLoops' = s.stoppedLoops
  /\ lateEffects' = s.lateEffects
  /\ navTarget' = s.navTarget
  /\ navKept' = s.navKept
  /\ navNext' = s.navNext
  /\ snapFrom' = s.snapFrom
  /\ UNCHANGED cacheVars
  /\ UNCHANGED exportVars

(* the assignment by a step that leaves the entries and the window alone *)
Set(s) ==
  /\ Assign(s)
  /\ UNCHANGED <<entries, timeWindow>>

(* entries[i], with the code's indices from 0 *)
EntryAt(i) == entries[i + 1]

(* ======================= TTSService ======================= *)

(* cleanupAudio(): pause and detach this.audioElement, drop its handlers. *)
cleanupAudio(s) ==
  IF s.audioElement = 0 THEN s
  ELSE [s EXCEPT !.audio[s.audioElement] = "none", !.audioElement = 0]

(* cancel(): pause, rewind, then cleanup(); currentAudioFile is never set. *)
cancel(s) == cleanupAudio(s)

(* pause(): pauses this.audioElement when it is playing. *)
ttsPause(s) ==
  IF s.audioElement # 0 /\ s.audio[s.audioElement] = "playing"
  THEN [s EXCEPT !.audio[s.audioElement] = "paused"] ELSE s

(* resume(): plays this.audioElement when it is paused. *)
ttsResume(s) ==
  IF s.audioElement # 0 /\ s.audio[s.audioElement] = "paused"
  THEN [s EXCEPT !.audio[s.audioElement] = "playing"] ELSE s

(* ======================= PlaybackEngine ======================= *)

(* A loop's promise chain ends: it returned, or threw into the catch of       *)
(* play()/restartPlayback().                                                  *)
endLoop(s, l) ==
  [s EXCEPT !.loops[l] = NoLoop, !.stoppedLoops = @ \ {l}]

(* ... threw an error that is not an AbortError: console.error, nothing else. *)
endLoopWithError(s, l) ==
  [endLoop(s, l) EXCEPT !.sessionKind = "other", !.phaseLog = <<>>, !.completeCount = 0]

(* What a loop of a stopped session is seen to do. *)
late(s, l, what) ==
  IF l \in s.stoppedLoops THEN [s EXCEPT !.lateEffects = @ \cup {what}] ELSE s

(* controller.abort(): the 'abort' listeners of speakWithAbort (tts.cancel(), *)
(* reject) and of delayWithAbort (clearTimeout, reject) run at once; the      *)
(* rejected loops end in the catch, which swallows AbortError.                *)
abort(s, c) ==
  LET hit == {l \in LoopIds : s.loops[l].pc \in {"speak", "delay"} /\ s.loops[l].sig = c}
      s1 == [s EXCEPT !.aborted = @ \cup {c},
                      !.loops = [l \in LoopIds |-> IF l \in hit THEN NoLoop ELSE @[l]],
                      !.stoppedLoops = @ \ hit]
  IN IF \E l \in hit : s.loops[l].pc = "speak" THEN cancel(s1) ELSE s1

(* this.abortController?.signal.aborted *)
signalAborted(s) == s.abortController # 0 /\ s.abortController \in s.aborted

(* startTimeTracking(), stopTimeTracking(): set and clear the interval *)
startTimeTracking(s) == [s EXCEPT !.timeUpdateInterval = TRUE]

stopTimeTracking(s) == [s EXCEPT !.timeUpdateInterval = FALSE]

(* a stop() that leaves isPaused as it is *)
stopKeepsPaused(s) ==
  LET s1 == IF s.abortController # 0 THEN abort(s, s.abortController) ELSE s
      s2 == stopTimeTracking(cancel([s1 EXCEPT !.abortController = 0]))
  IN [s2 EXCEPT !.isPlaying = FALSE, !.currentPhase = "idle"]

stop(s) ==
  LET s1 == IF s.abortController # 0 THEN abort(s, s.abortController) ELSE s
      s2 == stopTimeTracking(cancel([s1 EXCEPT !.abortController = 0]))
  IN [s2 EXCEPT !.isPlaying = FALSE, !.isPaused = FALSE, !.currentPhase = "idle"]

(* notifyEntryChange(), called by loop l (0: by a transport command) *)
notifyEntryChange(s, l) == late(s, l, "onEntryChange")

(* setPhase(phase) by loop l, which is playing entry e *)
setPhase(s, l, e, phase) ==
  LET s1 == [s EXCEPT !.currentPhase = phase,
                      !.phaseLog = IF s.sessionKind = "other" THEN <<>>
                                   ELSE Append(@, <<e, phase>>),
                      !.navNext = IF s.navTarget # -1 /\ @ = <<>>
                                  THEN <<e, phase>> ELSE @]
  IN late(s1, l, "onPhaseChange")

(* PAUSE * 1000 / rate, in ms *)
DelayMs(pause, rate) == (pause * 1000) \div rate

PauseOf(phase) ==
  CASE phase = "pause-after-english" -> PAUSE_AFTER_ENGLISH
    [] phase = "pause-after-spanish-word" -> PAUSE_AFTER_SPANISH_WORD
    [] OTHER -> PAUSE_BETWEEN_ENTRIES

(* speakWithAbort up to its suspension: TTSService.speak cleans up the       *)
(* previous element and sends the synthesize request.                        *)
speakWithAbort(s, l) ==
  IF s.loops[l].sig # 0 /\ s.loops[l].sig \in s.aborted THEN endLoop(s, l)
  ELSE IF ~s.isReady THEN endLoopWithError(s, l)
  ELSE LET s1 == cleanupAudio(s)
       IN [s1 EXCEPT !.audio[l] = "synth", !.loops[l].pc = "speak"]

(* delayWithAbort up to its suspension: the timer is armed. *)
delayWithAbort(s, l, ms) ==
  IF s.loops[l].sig # 0 /\ s.loops[l].sig \in s.aborted THEN endLoop(s, l)
  ELSE [s EXCEPT !.loops[l].pc = "delay", !.loops[l].timer = ms,
                 !.loops[l].scheduled = ms, !.loops[l].spent = 0]

(* One phase of playEntry: setPhase, then the speak or the delay. *)
runPhase(s, l, phase) ==
  LET s1 == setPhase([s EXCEPT !.loops[l].phase = phase], l, s.loops[l].entry, phase)
  IN IF phase \in SpeakPhases THEN speakWithAbort(s1, l)
     ELSE delayWithAbort(s1, l, DelayMs(PauseOf(phase), s.loops[l].rate))

NextPhaseSkipsSpanishWord(phase) ==
  CASE phase = "english" -> "pause-after-english"
    [] phase = "pause-after-english" -> "pause-after-spanish-word"
    [] phase = "spanish-word" -> "pause-after-spanish-word"
    [] phase = "pause-after-spanish-word" -> "spanish-sentence"
    [] OTHER -> "between-entries"

NextPhase(phase) ==
  CASE phase = "english" -> "pause-after-english"
    [] phase = "pause-after-english" -> "spanish-word"
    [] phase = "spanish-word" -> "pause-after-spanish-word"
    [] phase = "pause-after-spanish-word" -> "spanish-sentence"
    [] OTHER -> "between-entries"

(* playEntry(entry) from its first line: rate and signal are read once. *)
playEntry(s, l) ==
  runPhase([s EXCEPT !.loops[l].entry = s.currentEntryIndex,
                     !.loops[l].start = EntryAt(s.currentEntryIndex).cumulativeStartTime,
                     !.loops[l].rate = s.playbackRate,
                     !.loops[l].sig = s.abortController], l, "english")

(* playFromCurrent after its while loop: 'Playback complete'. *)
playbackComplete(s, l) ==
  IF signalAborted(s) THEN endLoop(s, l)
  ELSE LET s1 == stop(s)
           s2 == late([s1 EXCEPT !.completeCount =
                                   IF s.sessionKind = "other" THEN 0 ELSE @ + 1],
                      l, "onComplete")
       IN endLoop(s2, l)

(* The head of playFromCurrent's while loop. *)
playFromCurrent(s, l) ==
  IF s.isPlaying /\ ~signalAborted(s) /\ s.currentEntryIndex < Len(entries)
  THEN IF EntryAt(s.currentEntryIndex).cumulativeStartTime >= timeWindow.endTime
       THEN playbackComplete(s, l)
       ELSE playEntry(s, l)
  ELSE playbackComplete(s, l)

(* playFromCurrent after 'await this.playEntry(entry)'. *)
afterEntry(s, l) ==
  LET nextIndex == s.currentEntryIndex + 1
  IN IF signalAborted(s) THEN playbackComplete(s, l)
     ELSE IF nextIndex >= Len(entries) THEN playbackComplete(s, l)
     ELSE IF EntryAt(nextIndex).cumulativeStartTime >= timeWindow.endTime
          THEN playbackComplete(s, l)
     ELSE LET s1 == late([s EXCEPT !.currentEntryIndex = nextIndex], l, "indexWrite")
          IN playFromCurrent(notifyEntryChange(s1, l), l)

(* playEntry resumed after the await of phase loops[l].phase. *)
continueEntry(s, l) ==
  LET s0 == [s EXCEPT !.loops[l].pc = "run"]
      phase == s.loops[l].phase
  IN IF phase = "between-entries" THEN afterEntry(s0, l)
     ELSE IF s.loops[l].sig # 0 /\ s.loops[l].sig \in s.aborted THEN afterEntry(s0, l)
     ELSE runPhase(s0, l, NextPhase(phase))

(* play() after 'await this.tts.waitForReady()'. *)
playStart(s, l) ==
  playFromCurrent(startTimeTracking(
                    [s EXCEPT !.isPlaying = TRUE, !.isPaused = FALSE,
                              !.abortController = l, !.loops[l].pc = "run"]), l)

resume(s) ==
  IF ~s.isPaused THEN s
  ELSE startTimeTracking(ttsResume([s EXCEPT !.isPaused = FALSE]))

pause(s) ==
  IF ~s.isPlaying \/ s.isPaused THEN s
  ELSE stopTimeTracking(ttsPause([s EXCEPT !.isPaused = TRUE]))

play(s) ==
  IF s.isPaused THEN resume(s)
  ELSE IF s.isPlaying THEN s
  ELSE IF Len(entries) = 0 THEN s
  ELSE LET l == s.nLoops + 1
           s1 == [s EXCEPT !.nLoops = l, !.loops[l].pc = "ready"]
       IN IF s.isReady THEN playStart(s1, l) ELSE s1

restartPlayback(s) ==
  LET l == s.nLoops + 1
      s1 == IF s.abortController # 0 THEN abort(s, s.abortController) ELSE s
  IN playFromCurrent([s1 EXCEPT !.abortController = l, !.nLoops = l,
                                !.loops[l].pc = "run"], l)

(* The common tail of next(), prev() and jumpToEntry(). *)
moveTo(s, index) ==
  LET s1 == notifyEntryChange([cancel(s) EXCEPT !.currentEntryIndex = index], 0)
  IN IF s1.isPlaying /\ ~s1.isPaused THEN restartPlayback(s1) ELSE s1

next(s) ==
  LET nextIndex == s.currentEntryIndex + 1
  IN IF nextIndex >= Len(entries) THEN s
     ELSE IF EntryAt(nextIndex).cumulativeStartTime >= timeWindow.endTime THEN s
     ELSE moveTo(s, nextIndex)

prev(s) ==
  LET prevIndex == s.currentEntryIndex - 1
  IN IF prevIndex < 0 THEN s
     ELSE IF EntryAt(prevIndex).cumulativeStartTime + EntryAt(prevIndex).estimatedDuration
                <= timeWindow.startTime THEN s
     ELSE moveTo(s, prevIndex)

(* a jumpToEntry() that does not test the upper bound *)
jumpToEntryNoUpperBound(s, index) ==
  IF index < 0 THEN s
  ELSE moveTo(s, index)

jumpToEntry(s, index) ==
  IF index < 0 \/ index >= Len(entries) THEN s
  ELSE moveTo(s, index)


InWindow(start, window) == window.startTime <= start /\ start < window.endTime

(* setTimeWindow's search: the first entry that starts within the window, -1 if none *)
findIndex(es, window) ==
  LET inside == {i \in 0..(Len(es) - 1) :
                   /\ es[i + 1].cumulativeStartTime >= window.startTime
                   /\ es[i + 1].cumulativeStartTime < window.endTime}
  IN IF inside = {} THEN -1 ELSE CHOOSE i \in inside : \A j \in inside : i <= j

setEntries(s, es) == [s EXCEPT !.currentEntryIndex = 0]

(* the limits of setRate, in tenths as playbackRate *)
MIN_RATE == 5
MAX_RATE == 20

Max(a, b) == IF a >= b THEN a ELSE b
Min(a, b) == IF a <= b THEN a ELSE b

(* a setRate() without the upper limit *)
setRateNoUpperLimit(s, rate) == [s EXCEPT !.playbackRate = Max(MIN_RATE, rate)]

setRate(s, rate) == [s EXCEPT !.playbackRate = Max(MIN_RATE, Min(MAX_RATE, rate))]

(* a setTimeWindow() that takes the last entry inside the window *)
setTimeWindowFindsLast(s, es, window) ==
  LET inside == {i \in 0..(Len(es) - 1) :
                   InWindow(es[i + 1].cumulativeStartTime, window)}
  IN IF inside # {} /\ ~s.isPlaying
     THEN [s EXCEPT !.currentEntryIndex = CHOOSE i \in inside : \A j \in inside : j <= i]
     ELSE s

(* setTimeWindow(window) over the entries es *)
setTimeWindow(s, es, window) ==
  LET startIndex == findIndex(es, window)
  IN IF startIndex >= 0 /\ ~s.isPlaying
     THEN notifyEntryChange([s EXCEPT !.currentEntryIndex = startIndex,
                                      !.snapFrom = s.currentEntryIndex], 0)
     ELSE s

(* ======================= event handlers ======================= *)

(* The promise of TTSService.speak rejects: speakWithAbort's catch rejects   *)
(* the phase, playEntry and playFromCurrent throw, play() logs the error.    *)
speakRejected(s, l) ==
  IF s.loops[l].pc = "speak" THEN endLoopWithError(s, l) ELSE s

(* a waitWhilePaused() whose loop condition is never true *)
waitWhilePausedNeverWaits(s, l, pollPc) ==
  continueEntry([s EXCEPT !.loops[l].polls = 0], l)

(* waitWhilePaused() after a speak or a delay, then the rest of playEntry;   *)
(* each turn of its loop arms a new timer (polls: the parity of the turns)   *)
waitWhilePaused(s, l, pollPc) ==
  IF s.isPaused
  THEN [s EXCEPT !.loops[l].pc = pollPc, !.loops[l].timer = PollMs,
                 !.loops[l].polls = 1 - @]
  ELSE continueEntry([s EXCEPT !.loops[l].polls = 0], l)

(* TTSService.speak after 'await window.electronAPI.tts.synthesize(...)':    *)
(* the request rejected, or the element is created and play() is called,     *)
(* and play() may itself reject.                                             *)
synthesizeReplied(s, l, outcome) ==
  CASE outcome = "rejected" -> speakRejected([s EXCEPT !.audio[l] = "none"], l)
    [] outcome = "playFails" ->
         speakRejected([s EXCEPT !.audio[l] = "paused", !.audioElement = l], l)
    [] OTHER -> [s EXCEPT !.audio[l] = "playing", !.audioElement = l]

(* audioElement.onended of speak call l: cleanupAudio(), resolve() *)
onended(s, l) ==
  LET s1 == [cleanupAudio(s) EXCEPT !.audio[l] = "none"]
  IN IF s1.loops[l].pc = "speak" THEN waitWhilePaused(s1, l, "speakPoll") ELSE s1

(* audioElement.onerror of speak call l: cleanupAudio(), reject() *)
onerror(s, l) ==
  speakRejected([cleanupAudio(s) EXCEPT !.audio[l] = "none"], l)

(* delayWithAbort's timeout fires *)
timeout(s, l) == waitWhilePaused(s, l, "delayPoll")

(* waitWhilePaused's 100 ms timeout fires *)
pollTimeout(s, l) == waitWhilePaused(s, l, s.loops[l].pc)

(* notifyReady(): the pending play() calls continue in the order they were made *)
RECURSIVE notifyReady(_, _)
notifyReady(s, l) ==
  IF l > MaxLoops THEN s
  ELSE notifyReady(IF s.loops[l].pc = "ready" THEN playStart(s, l) ELSE s, l + 1)

(* ======================= what has been observed ======================= *)

SessionKind(kind, cmd, paused) ==
  CASE cmd = "event" -> kind
    [] cmd = "play" /\ kind = "none" -> "play"
    [] cmd = "play" /\ paused /\ kind \in {"play", "pauseResume"} -> "pauseResume"
    [] cmd \in {"pause", "resume"} /\ kind \in {"play", "pauseResume"} -> "pauseResume"
    [] OTHER -> "other"

(* The state at the start of a macrotask: what the last one was seen to do   *)
(* is forgotten, the command is noted.                                       *)
Begin(cmd) ==
  LET kind == SessionKind(sessionKind, cmd, isPaused)
  IN [Cur EXCEPT !.sessionKind = kind,
                 !.phaseLog = IF kind = "other" THEN <<>> ELSE @,
                 !.completeCount = IF kind = "other" THEN 0 ELSE @,
                 !.lateEffects = {},
                 !.navKept = TRUE,
                 !.navTarget = IF navNext # <<>> \/ ~isPlaying THEN -1 ELSE @,
                 !.navNext = <<>>,
                 !.snapFrom = -1]

LiveLoops(s) ==
  {l \in LoopIds : s.loops[l].pc \in {"speak", "delay", "speakPoll", "delayPoll"}}

(* A next/prev/jumpToEntry: when it changed the index during a play session, *)
(* remember the entry it moved to, whether isPlaying/isPaused were kept, and *)
(* the first phase executed since.                                           *)
Navigate(s, after, armed) ==
  IF s.isPlaying /\ after.currentEntryIndex # s.currentEntryIndex
  THEN [armed EXCEPT !.navTarget = armed.currentEntryIndex,
                     !.navKept = (armed.isPlaying = s.isPlaying /\ armed.isPaused = s.isPaused)]
  ELSE after

Arm(s) == [s EXCEPT !.navTarget = -2]

(* ======================= actions ======================= *)

MayStartLoop == nLoops < MaxLoops

PlayCmd ==
  /\ isPaused \/ isPlaying \/ MayStartLoop
  /\ Set(play(Begin("play")))

PauseCmd == Set(pause(Begin("pause")))

ResumeCmd == Set(resume(Begin("resume")))

StopCmd ==
  LET s1 == stop(Begin("stop"))
  IN Set([s1 EXCEPT !.stoppedLoops = LiveLoops(s1), !.navTarget = -1])

NextCmd ==
  /\ ~(isPlaying /\ ~isPaused) \/ MayStartLoop
  /\ LET s == Begin("next")
     IN Set(Navigate(s, next(s), next(Arm(s))))

PrevCmd ==
  /\ ~(isPlaying /\ ~isPaused) \/ MayStartLoop
  /\ LET s == Begin("prev")
     IN Set(Navigate(s, prev(s), prev(Arm(s))))

JumpCmd ==
  /\ ~(isPlaying /\ ~isPaused) \/ MayStartLoop
  /\ \E index \in -1..Len(entries) :
       LET s == Begin("jump")
       IN Set(Navigate(s, jumpToEntry(s, index), jumpToEntry(Arm(s), index)))

(* the entries of the session: each lasts EntrySeconds *)
InputEntries ==
  [i \in 1..NumEntries |->
     [cumulativeStartTime |-> (i - 1) * EntrySeconds, estimatedDuration |-> EntrySeconds]]

(* the lists given to setEntries: none, one or all of the input entries, and *)
(* five entries that start at 0, 5, 12, 18 and 25 s                          *)
EntriesAt(offsets) ==
  [i \in 1..Len(offsets) |->
     [cumulativeStartTime |-> offsets[i],
      estimatedDuration |-> IF i < Len(offsets) THEN offsets[i + 1] - offsets[i]
                            ELSE EntrySeconds]]

ExampleEntries == EntriesAt(<<0, 5, 12, 18, 25>>)

EntryInputs == {<<>>, SubSeq(InputEntries, 1, 1), InputEntries, ExampleEntries}

(* the windows given to setTimeWindow *)
WindowInputs ==
  {[startTime |-> a, endTime |-> b] : a \in {0, 5, 10, 13}, b \in {5, 18, 20, Infinity}}

SetEntriesTo(es) ==
  /\ entries' = es
  /\ UNCHANGED timeWindow
  /\ Assign(setEntries(Begin("setEntries"), es))

SetEntries == \E es \in EntryInputs : SetEntriesTo(es)

SetTimeWindowTo(window) ==
  /\ timeWindow' = window
  /\ UNCHANGED entries
  /\ Assign(setTimeWindow(Begin("setTimeWindow"), entries, window))

SetTimeWindow == \E window \in WindowInputs : SetTimeWindowTo(window)

(* the rates given to setRate, in tenths: below, at, between and above the limits *)
RateInputs == {-10, 0, 4, 5, 10, 20, 21, Infinity}

SetRateTo(rate) == Set(setRate(Begin("setRate"), rate))

SetRate == \E rate \in RateInputs : SetRateTo(rate)

(* the speeds of the speed control, in tenths *)
SpeedInputs == {5, 10, 20}

(* recalculateDurations(entries, playbackRate) for entries whose texts take  *)
(* EntrySeconds at rate 1.0: each duration is divided by the rate and the    *)
(* start times are summed anew                                               *)
recalculateDurations(es, rate) ==
  LET duration == (EntrySeconds * 10) \div rate
  IN [i \in 1..Len(es) |->
        [cumulativeStartTime |-> (i - 1) * duration, estimatedDuration |-> duration]]

(* App.handleSpeedChange(rate), a file being loaded: setRate(rate), then     *)
(* setEntries(recalculateDurations(currentFile.entries, rate))               *)
handleSpeedChange(s, rate) ==
  setEntries(setRate(s, rate), recalculateDurations(entries, rate))

HandleSpeedChange ==
  /\ Len(entries) > 0
  /\ \E rate \in SpeedInputs :
       /\ entries' = recalculateDurations(entries, rate)
       /\ UNCHANGED timeWindow
       /\ Assign(handleSpeedChange(Begin("setRate"), rate))

(* TTSService.init()/setApiKey(): the key is configured *)
TtsReady ==
  /\ ~isReady
  /\ Set(notifyReady([Begin("event") EXCEPT !.isReady = TRUE], 1))

SynthesizeReplied(l) ==
  /\ audio[l] = "synth"
  /\ \E outcome \in {"audio", "rejected", "playFails"} :
       Set(synthesizeReplied(Begin("event"), l, outcome))

AudioEnded(l) ==
  /\ audio[l] = "playing"
  /\ Set(onended(Begin("event"), l))

AudioError(l) ==
  /\ audio[l] \in {"playing", "paused"}
  /\ Set(onerror(Begin("event"), l))

TimerFires(l) ==
  /\ loops[l].pc = "delay"
  /\ Set(timeout(Begin("event"), l))

PollFires(l) ==
  /\ loops[l].pc \in {"speakPoll", "delayPoll"}
  /\ Set(pollTimeout(Begin("event"), l))

(* ======================= main process: ttsHandler ======================= *)

MaxCalls == 2            \* synthesizeSpeech calls

CallIds == 1..MaxCalls

Texts == {"a", "a|b"}
Languages == {"en", "es"}
VoiceArgs == {"", "c", "b|c"}     \* voiceId: undefined, or a selected voice
KeyInputs == {"", " ", "sk_1", " sk_1 "}      \* what the settings dialog may pass
Blobs == {<<>>, <<201>>, <<2, 253>>, <<77, 0, 255>>}              \* byte streams the gateway may return

(* what client.textToSpeech.convert does: it throws, or it streams bytes *)
GatewayOutcomes ==
  {[ok |-> TRUE, bytes |-> b] : b \in Blobs} \cup {[ok |-> FALSE, bytes |-> <<>>]}

VOICE_IDS == [spanish |-> "jtfxplhZxnBzQICVwoQn", english |-> "EXAVITQu4vr4xnSDxMaL"]

EmptyMap == [k \in {} |-> <<>>]

NoCall == [pc |-> "none", text |-> "", voiceId |-> "", languageCode |-> "",
           cacheKey |-> "", result |-> <<>>]

(* key.trim(), on KeyInputs *)
Trim(key) ==
  CASE key = " " -> ""
    [] key = " sk_1 " -> "sk_1"
    [] OTHER -> key

(* sha256 of `${text}|${voiceId}|${languageCode}`: the hash keeps distinct   *)
(* strings distinct, so the key is the hashed string.                        *)
generateCacheKey(text, voiceId, languageCode) ==
  text \o "|" \o voiceId \o "|" \o languageCode

(* `data:audio/mpeg;base64,${buffer.toString('base64')}` *)
(* buffer.toString('base64'): the digits 0..63 of each group of three bytes, *)
(* and the padding character (64) after a last group of one or two bytes     *)
RECURSIVE Base64(_)
Base64(bytes) ==
  CASE Len(bytes) = 0 -> <<>>
    [] Len(bytes) = 1 -> <<bytes[1] \div 4, (bytes[1] % 4) * 16, 64, 64>>
    [] Len(bytes) = 2 -> <<bytes[1] \div 4, (bytes[1] % 4) * 16 + bytes[2] \div 16,
                           (bytes[2] % 16) * 4, 64>>
    [] OTHER -> <<bytes[1] \div 4, (bytes[1] % 4) * 16 + bytes[2] \div 16,
                  (bytes[2] % 16) * 4 + bytes[3] \div 64, bytes[3] % 64>>
                \o Base64(SubSeq(bytes, 4, Len(bytes)))

(* the bytes that a base64 text stands for: what the renderer's Audio element *)
(* decodes from the data URL, and Buffer.from(base64Data, 'base64')          *)
RECURSIVE Base64Bytes(_)
Base64Bytes(digits) ==
  IF Len(digits) < 4 THEN <<>>
  ELSE LET d == digits
           b1 == d[1] * 4 + d[2] \div 16
           b2 == (d[2] % 16) * 16 + d[3] \div 4
           b3 == (d[3] % 4) * 64 + d[4]
       IN (CASE d[3] = 64 -> <<b1>>
             [] d[4] = 64 -> <<b1, b2>>
             [] OTHER -> <<b1, b2, b3>>)
          \o Base64Bytes(SubSeq(digits, 5, Len(digits)))

(* a data URL that holds the bytes as they are *)
DataUrlNotEncoded(bytes) == <<"data:audio/mpeg;base64,", bytes>>

DataUrl(bytes) == <<"data:audio/mpeg;base64,", Base64(bytes)>>

SelectedVoiceId(language, voiceId) ==
  IF voiceId # "" THEN voiceId
  ELSE IF language = "es" THEN VOICE_IDS.spanish ELSE VOICE_IDS.english

LanguageCode(language) == IF language = "es" THEN "es-ES" ELSE "en-US"

(* setApiKey(key) *)
SetApiKey ==
  /\ \E key \in KeyInputs :
       IF Trim(key) = ""
       THEN apiKey' = "null" /\ client' = FALSE
       ELSE apiKey' = Trim(key) /\ client' = TRUE
  /\ UNCHANGED <<cacheFiles, cacheIndex, indexFile, calls, nCalls, now, gatewayCalls>>
  /\ UNCHANGED <<engineVars, exportVars>>

(* a synthesizeSpeech that looks into the cache before it tests the client *)
synthesizeSpeechLooksUpFirst(text, language, voiceId) ==
  LET c == nCalls + 1
      selectedVoiceId == SelectedVoiceId(language, voiceId)
      languageCode == LanguageCode(language)
      cacheKey == generateCacheKey(text, selectedVoiceId, languageCode)
      call == [NoCall EXCEPT !.text = text, !.voiceId = selectedVoiceId,
                             !.languageCode = languageCode, !.cacheKey = cacheKey]
  IN /\ nCalls' = c
     /\ IF cacheKey \in DOMAIN cacheFiles
        THEN /\ cacheIndex' = IF cacheKey \in DOMAIN cacheIndex
                              THEN [cacheIndex EXCEPT ![cacheKey].lastAccessed = now]
                              ELSE cacheIndex
             /\ indexFile' = IF cacheKey \in DOMAIN cacheIndex THEN cacheIndex' ELSE indexFile
             /\ calls' = [calls EXCEPT ![c] = [call EXCEPT !.pc = "hit",
                                                           !.result = DataUrl(cacheFiles[cacheKey])]]
             /\ now' = now + 1
             /\ UNCHANGED gatewayCalls
        ELSE IF ~client
        THEN /\ calls' = [calls EXCEPT ![c] = [call EXCEPT !.pc = "notConfigured"]]
             /\ UNCHANGED <<cacheIndex, indexFile, now, gatewayCalls>>
        ELSE /\ calls' = [calls EXCEPT ![c] = [call EXCEPT !.pc = "gateway"]]
             /\ gatewayCalls' = Append(gatewayCalls, cacheKey)
             /\ UNCHANGED <<cacheIndex, indexFile, now>>
     /\ UNCHANGED <<client, apiKey, cacheFiles>>

(* a synthesizeSpeech that takes an index entry for the blob *)
synthesizeSpeechTrustsIndex(text, language, voiceId) ==
  LET c == nCalls + 1
      selectedVoiceId == SelectedVoiceId(language, voiceId)
      languageCode == LanguageCode(language)
      cacheKey == generateCacheKey(text, selectedVoiceId, languageCode)
      call == [NoCall EXCEPT !.text = text, !.voiceId = selectedVoiceId,
                             !.languageCode = languageCode, !.cacheKey = cacheKey]
  IN /\ nCalls' = c
     /\ IF ~client
        THEN /\ calls' = [calls EXCEPT ![c] = [call EXCEPT !.pc = "notConfigured"]]
             /\ UNCHANGED <<cacheIndex, indexFile, now, gatewayCalls>>
        ELSE IF cacheKey \in DOMAIN cacheIndex
        THEN /\ cacheIndex' = [cacheIndex EXCEPT ![cacheKey].lastAccessed = now]
             /\ indexFile' = cacheIndex'
             /\ calls' = [calls EXCEPT ![c] =
                            [call EXCEPT !.pc = "hit",
                                         !.result = DataUrl(IF cacheKey \in DOMAIN cacheFiles
                                                            THEN cacheFiles[cacheKey]
                                                            ELSE <<>>)]]
             /\ now' = now + 1
             /\ UNCHANGED gatewayCalls
        ELSE /\ calls' = [calls EXCEPT ![c] = [call EXCEPT !.pc = "gateway"]]
             /\ gatewayCalls' = Append(gatewayCalls, cacheKey)
             /\ UNCHANGED <<cacheIndex, indexFile, now>>
     /\ UNCHANGED <<client, apiKey, cacheFiles>>

(* synthesizeSpeech(text, language, voiceId) up to its return, its throw or  *)
(* its await of client.textToSpeech.convert; the record of a call that is    *)
(* refused keeps what was asked for                                           *)
synthesizeSpeech(text, language, voiceId) ==
  LET c == nCalls + 1
      selectedVoiceId == SelectedVoiceId(language, voiceId)
      languageCode == LanguageCode(language)
      cacheKey == generateCacheKey(text, selectedVoiceId, languageCode)
      call == [NoCall EXCEPT !.text = text, !.voiceId = selectedVoiceId,
                             !.languageCode = languageCode, !.cacheKey = cacheKey]
  IN /\ nCalls' = c
     /\ IF ~client
        THEN /\ calls' = [calls EXCEPT ![c] = [call EXCEPT !.pc = "notConfigured"]]
             /\ UNCHANGED <<cacheIndex, indexFile, now, gatewayCalls>>
        ELSE IF cacheKey \in DOMAIN cacheFiles
        THEN /\ cacheIndex' = IF cacheKey \in DOMAIN cacheIndex
                              THEN [cacheIndex EXCEPT ![cacheKey].lastAccessed = now]
                              ELSE cacheIndex
             /\ indexFile' = IF cacheKey \in DOMAIN cacheIndex THEN cacheIndex' ELSE indexFile
             /\ calls' = [calls EXCEPT ![c] = [call EXCEPT !.pc = "hit",
                                                           !.result = DataUrl(cacheFiles[cacheKey])]]
             /\ now' = now + 1
             /\ UNCHANGED gatewayCalls
        ELSE /\ calls' = [calls EXCEPT ![c] = [call EXCEPT !.pc = "gateway"]]
             /\ gatewayCalls' = Append(gatewayCalls, cacheKey)
             /\ UNCHANGED <<cacheIndex, indexFile, now>>
     /\ UNCHANGED <<client, apiKey, cacheFiles>>

SynthesizeSpeechOf(texts, voiceIds) ==
  /\ nCalls < MaxCalls
  /\ \E text \in texts, language \in Languages, voiceId \in voiceIds :
       synthesizeSpeech(text, language, voiceId)
  /\ UNCHANGED <<engineVars, exportVars>>

SynthesizeSpeech == SynthesizeSpeechOf(Texts, VoiceArgs)

(* synthesizeSpeech when existsSync(cachePath) holds and readFileSync throws: *)
(* the read is outside the try block, so the call rejects with that error    *)
readFails(text, language, voiceId) ==
  LET c == nCalls + 1
      selectedVoiceId == SelectedVoiceId(language, voiceId)
      languageCode == LanguageCode(language)
      cacheKey == generateCacheKey(text, selectedVoiceId, languageCode)
  IN /\ client
     /\ cacheKey \in DOMAIN cacheFiles
     /\ nCalls' = c
     /\ calls' = [calls EXCEPT ![c] = [NoCall EXCEPT !.text = text,
                                                      !.voiceId = selectedVoiceId,
                                                      !.languageCode = languageCode,
                                                      !.cacheKey = cacheKey,
                                                      !.pc = "readError"]]
     /\ UNCHANGED <<client, apiKey, cacheFiles, cacheIndex, indexFile, now, gatewayCalls>>

ReadFails ==
  /\ nCalls < MaxCalls
  /\ \E language \in Languages : readFails("a", language, "")
  /\ UNCHANGED <<engineVars, exportVars>>

(* synthesizeSpeech after 'await client.textToSpeech.convert(...)': the call *)
(* threw, or the stream is collected, written to the cache and returned.     *)
(* getCacheStats().totalFiles and .totalSize *)
totalFiles(index) == Cardinality(DOMAIN index)

RECURSIVE SumSizes(_, _)
SumSizes(index, keys) ==
  IF keys = {} THEN 0
  ELSE LET k == CHOOSE x \in keys : TRUE
       IN index[k].fileSize + SumSizes(index, keys \ {k})

totalSize(index) == SumSizes(index, DOMAIN index)

(* a miss that also stores what a failed gateway call left: an empty file *)
convertRepliedCachesFailure(c, outcome) ==
  LET cacheKey == calls[c].cacheKey
  IN /\ cacheFiles' = (cacheKey :> outcome.bytes) @@ cacheFiles
     /\ cacheIndex' = (cacheKey :> [text |-> calls[c].text,
                                    voiceId |-> calls[c].voiceId,
                                    languageCode |-> calls[c].languageCode,
                                    timestamp |-> now,
                                    fileSize |-> Len(outcome.bytes),
                                    lastAccessed |-> now]) @@ cacheIndex
     /\ indexFile' = cacheIndex'
     /\ calls' = [calls EXCEPT ![c].pc = IF outcome.ok THEN "stored" ELSE "failed",
                               ![c].result = IF outcome.ok THEN DataUrl(outcome.bytes) ELSE @]
     /\ now' = now + 1

(* a store that does not overwrite the file of a key that has one *)
convertRepliedKeepsOldFile(c, outcome) ==
  LET cacheKey == calls[c].cacheKey
  IN IF ~outcome.ok
     THEN /\ calls' = [calls EXCEPT ![c].pc = "failed"]
          /\ UNCHANGED <<cacheFiles, cacheIndex, indexFile, now>>
     ELSE /\ cacheFiles' = cacheFiles @@ (cacheKey :> outcome.bytes)
          /\ cacheIndex' = (cacheKey :> [text |-> calls[c].text,
                                         voiceId |-> calls[c].voiceId,
                                         languageCode |-> calls[c].languageCode,
                                         timestamp |-> now,
                                         fileSize |-> Len(outcome.bytes),
                                         lastAccessed |-> now]) @@ cacheIndex
          /\ indexFile' = cacheIndex'
          /\ calls' = [calls EXCEPT ![c].pc = "stored", ![c].result = DataUrl(outcome.bytes)]
          /\ now' = now + 1

convertReplied(c, outcome) ==
  LET cacheKey == calls[c].cacheKey
  IN IF ~outcome.ok
     THEN /\ calls' = [calls EXCEPT ![c].pc = "failed"]
          /\ UNCHANGED <<cacheFiles, cacheIndex, indexFile, now>>
     ELSE /\ cacheFiles' = (cacheKey :> outcome.bytes) @@ cacheFiles
          /\ cacheIndex' = (cacheKey :> [text |-> calls[c].text,
                                         voiceId |-> calls[c].voiceId,
                                         languageCode |-> calls[c].languageCode,
                                         timestamp |-> now,
                                         fileSize |-> Len(outcome.bytes),
                                         lastAccessed |-> now]) @@ cacheIndex
          /\ indexFile' = cacheIndex'
          /\ calls' = [calls EXCEPT ![c].pc = "stored", ![c].result = DataUrl(outcome.bytes)]
          /\ now' = now + 1

ConvertReplied(c) ==
  /\ calls[c].pc = "gateway"
  /\ \E outcome \in GatewayOutcomes : convertReplied(c, outcome)
  /\ UNCHANGED <<client, apiKey, nCalls, gatewayCalls>>
  /\ UNCHANGED <<engineVars, exportVars>>

(* a clearCache() that deletes the files that the index lists *)
ClearCacheOfIndexedFiles ==
  /\ cacheFiles' = [k \in DOMAIN cacheFiles \ DOMAIN cacheIndex |-> cacheFiles[k]]
  /\ cacheIndex' = EmptyMap
  /\ indexFile' = EmptyMap
  /\ UNCHANGED <<client, apiKey, calls, nCalls, now, gatewayCalls>>
  /\ UNCHANGED <<engineVars, exportVars>>

(* clearCache() *)
ClearCache ==
  /\ cacheFiles' = EmptyMap
  /\ cacheIndex' = EmptyMap
  /\ indexFile' = EmptyMap
  /\ UNCHANGED <<client, apiKey, calls, nCalls, now, gatewayCalls>>
  /\ UNCHANGED <<engineVars, exportVars>>

(* clearCache() when unlinkSync throws for the file of key failing: the     *)
(* files that readdirSync listed before it (deleted) are gone, forEach stops, *)
(* and the index is neither reset nor saved.                                  *)
clearCacheFails(failing, deleted) ==
  /\ cacheFiles' = [k \in DOMAIN cacheFiles \ deleted |-> cacheFiles[k]]
  /\ UNCHANGED <<cacheIndex, indexFile>>

ClearCacheFails ==
  /\ \E failing \in DOMAIN cacheFiles :
       \E deleted \in SUBSET (DOMAIN cacheFiles \ {failing}) :
         clearCacheFails(failing, deleted)
  /\ UNCHANGED <<client, apiKey, calls, nCalls, now, gatewayCalls>>
  /\ UNCHANGED <<engineVars, exportVars>>

(* The process dies in the store of call c, after writeFileSync(cachePath)   *)
(* and before the index entry is saved; the application is started again:    *)
(* initFromEnv() reads the key from .env and loads the index file.           *)
storeCrashes(c, bytes) ==
  /\ cacheFiles' = (calls[c].cacheKey :> bytes) @@ cacheFiles
  /\ cacheIndex' = indexFile
  /\ calls' = [d \in CallIds |-> NoCall]
  /\ UNCHANGED indexFile

StoreCrashes(c) ==
  /\ calls[c].pc = "gateway"
  /\ \E outcome \in GatewayOutcomes : outcome.ok /\ storeCrashes(c, outcome.bytes)
  /\ \E key \in BOOLEAN : client' = key /\ apiKey' = (IF key THEN "sk_1" ELSE "null")
  /\ UNCHANGED <<nCalls, now, gatewayCalls>>
  /\ UNCHANGED <<engineVars, exportVars>>

(* the module after initFromEnv(), with or without a key in .env, on an      *)
(* empty cache directory                                                     *)
InitCache ==
  /\ client \in BOOLEAN
  /\ apiKey = (IF client THEN "sk_1" ELSE "null")
  /\ cacheFiles = EmptyMap
  /\ cacheIndex = EmptyMap
  /\ indexFile = EmptyMap
  /\ calls = [c \in CallIds |-> NoCall]
  /\ nCalls = 0
  /\ now = 0
  /\ gatewayCalls = <<>>

NextCache ==
  \/ SetApiKey
  \/ SynthesizeSpeech
  \/ \E c \in CallIds : ConvertReplied(c)
  \/ \E c \in CallIds : StoreCrashes(c)
  \/ ClearCache
  \/ ClearCacheFails

(* The cache under requests for one text in the two languages, with the     *)
(* default voices: lookups, stores and clearCache, the key set or removed,   *)
(* a crash in a store and a deletion that fails.                              *)
NextStore ==
  \/ SetApiKey
  \/ SynthesizeSpeechOf({"a"}, {""})
  \/ \E c \in CallIds : ConvertReplied(c)
  \/ \E c \in CallIds : StoreCrashes(c)
  \/ ClearCache
  \/ ClearCacheFails

(* The cache of a process that starts on a disk left by an earlier one: the  *)
(* index file has the entries of "a" in both languages, the blob of the      *)
(* spanish one is gone (a clearCache that threw after deleting it).          *)
DiskKeys ==
  [l \in Languages |-> generateCacheKey("a", SelectedVoiceId(l, ""), LanguageCode(l))]

DiskIndex ==
  [k \in {DiskKeys[l] : l \in Languages} |->
     LET l == CHOOSE l \in Languages : DiskKeys[l] = k
     IN [text |-> "a", voiceId |-> SelectedVoiceId(l, ""), languageCode |-> LanguageCode(l),
         timestamp |-> 0, fileSize |-> 2, lastAccessed |-> 0]]

InitDiskCache ==
  /\ client \in BOOLEAN
  /\ apiKey = (IF client THEN "sk_1" ELSE "null")
  /\ cacheFiles = (DiskKeys["en"] :> <<2, 253>>)
  /\ cacheIndex = DiskIndex
  /\ indexFile = DiskIndex
  /\ calls = [c \in CallIds |-> NoCall]
  /\ nCalls = 0
  /\ now = 1
  /\ gatewayCalls = <<>>

NextDisk ==
  \/ SetApiKey
  \/ SynthesizeSpeechOf({"a"}, {""})
  \/ \E c \in CallIds : ConvertReplied(c)
  \/ ReadFails
  \/ ClearCacheFails

(* ======================= main process: audioExporter ======================= *)

MaxCards == 2            \* entries of an export

Card(n) == [englishWord |-> "hello" \o ToString(n),
            spanishWord |-> "hola" \o ToString(n),
            spanishSentence |-> "Hola " \o ToString(n) \o ", como estas?"]

(* the entries handed to exportAudioFile: none, the first cards, one card twice *)
ExportInputs ==
  {[i \in 1..n |-> Card(i)] : n \in 0..MaxCards} \cup {<<Card(1), Card(1)>>}

(* speed, in tenths *)
ExportSpeeds == {10, 15}

(* 1.5, 0.8 and 1.0 seconds, in tenths *)
ExportPauses == <<15, 8, 10>>

(* entry.englishWord, entry.spanishWord, entry.spanishSentence *)
FragmentText(entry, frag) ==
  CASE frag = 1 -> entry.englishWord
    [] frag = 2 -> entry.spanishWord
    [] OTHER -> entry.spanishSentence

FragmentLanguage(frag) == IF frag = 1 THEN "en" ELSE "es"

(* what the gateway speaks for a text of an export: bytes that tell the      *)
(* card and the fragment                                                     *)
AudioOf(text) ==
  LET nf == CHOOSE nf \in (1..(MaxCards + 1)) \X (1..3) :
               FragmentText(Card(nf[1]), nf[2]) = text
  IN IF nf[2] = 1 THEN <<200 + nf[1]>>
     ELSE IF nf[2] = 2 THEN <<nf[1], 253>>
     ELSE <<77, nf[1], 255>>

(* the content of a file: speech bytes, or silence of num/den seconds *)
AudioFile(bytes) == [kind |-> "audio", bytes |-> bytes, num |-> 0, den |-> 1]
SilenceFile(num, den) == [kind |-> "silence", bytes |-> <<>>, num |-> num, den |-> den]

(* join(CACHE_DIR, `${cacheKey}.mp3`) *)
CachePath(cacheKey) == ".tts-cache/" \o cacheKey \o ".mp3"

(* join(TEMP_DIR, `temp-en-${i}.mp3`), temp-es-word-, temp-es-sentence- *)
TempPath(frag, i) ==
  "output/.temp/"
    \o (CASE frag = 1 -> "temp-en-" [] frag = 2 -> "temp-es-word-" [] OTHER -> "temp-es-sentence-")
    \o ToString(i) \o ".mp3"

(* (num / den).toFixed(2), num and den in tenths *)
ToFixed2(num, den) ==
  LET h == (200 * num + den) \div (2 * den)
  IN ToString(h \div 100) \o "." \o ToString((h % 100) \div 10) \o ToString(h % 10)

(* silence1Path, silence2Path, silence3Path *)
SilencePath(k, speed) ==
  "output/.temp/silence-" \o ToFixed2(ExportPauses[k], speed) \o "s.mp3"

(* a lookup that takes the spanish voice for every language *)
getCachedAudioPathSpanishVoice(files, text, language) ==
  LET cacheKey == generateCacheKey(text, "jtfxplhZxnBzQICVwoQn", "es-ES")
  IN IF cacheKey \in DOMAIN files THEN CachePath(cacheKey) ELSE "null"

(* the path of the cached file of a text in the default voice, "null" for null *)
getCachedAudioPath(files, text, language) ==
  LET voiceId == IF language = "es" THEN "jtfxplhZxnBzQICVwoQn" ELSE "EXAVITQu4vr4xnSDxMaL"
      languageCode == IF language = "es" THEN "es-ES" ELSE "en-US"
      cacheKey == generateCacheKey(text, voiceId, languageCode)
  IN IF cacheKey \in DOMAIN files THEN CachePath(cacheKey) ELSE "null"

(* a percent computed from the number of the entry, past the loop's share *)
LoopPercentOfNext(i, totalCards) == ((i + 1) * 70) \div totalCards + 10

(* Math.floor((i / totalCards) * 70); the double arithmetic is exact or      *)
(* rounds up by less than one on the entry counts explored here              *)
LoopPercent(i, totalCards) == (i * 70) \div totalCards

NoExport == [pc |-> "idle", entries |-> <<>>, speed |-> 10, i |-> 0, frag |-> 1,
             silence |-> 0, audioPaths |-> <<>>, tempFiles |-> <<>>,
             concatInput |-> <<>>, progress |-> <<>>, unlinked |-> {},
             result |-> "none", runs |-> 0, callsAtStart |-> 0,
             concatFiles |-> <<>>, prior |-> <<>>]

(* the run, the directories and the cache, as one record *)
ExportCur ==
  [pc |-> exportRun.pc, entries |-> exportRun.entries, speed |-> exportRun.speed,
   i |-> exportRun.i, frag |-> exportRun.frag, silence |-> exportRun.silence,
   audioPaths |-> exportRun.audioPaths, tempFiles |-> exportRun.tempFiles,
   concatInput |-> exportRun.concatInput, progress |-> exportRun.progress,
   unlinked |-> exportRun.unlinked, result |-> exportRun.result,
   runs |-> exportRun.runs, callsAtStart |-> exportRun.callsAtStart,
   concatFiles |-> exportRun.concatFiles, prior |-> exportRun.prior,
   tempDir |-> tempDir, outputFile |-> outputFile,
   cacheFiles |-> cacheFiles, cacheIndex |-> cacheIndex, indexFile |-> indexFile,
   now |-> now, gatewayCalls |-> gatewayCalls]

ExportAssign(x) ==
  /\ exportRun' = [pc |-> x.pc, entries |-> x.entries, speed |-> x.speed,
                   i |-> x.i, frag |-> x.frag, silence |-> x.silence,
                   audioPaths |-> x.audioPaths, tempFiles |-> x.tempFiles,
                   concatInput |-> x.concatInput, progress |-> x.progress,
                   unlinked |-> x.unlinked, result |-> x.result,
                   runs |-> x.runs, callsAtStart |-> x.callsAtStart,
                   concatFiles |-> x.concatFiles, prior |-> x.prior]
  /\ tempDir' = x.tempDir
  /\ outputFile' = x.outputFile
  /\ cacheFiles' = x.cacheFiles
  /\ cacheIndex' = x.cacheIndex
  /\ indexFile' = x.indexFile
  /\ now' = x.now
  /\ gatewayCalls' = x.gatewayCalls
  /\ UNCHANGED <<client, apiKey, calls, nCalls>>
  /\ UNCHANGED engineVars

onProgress(x, percent) == [x EXCEPT !.progress = Append(@, percent)]

(* the catch block: { success: false, error } *)
exportFailed(x) == [x EXCEPT !.pc = "done", !.result = "failure"]

(* a loop body that pushes the pause before the fragment *)
pushFragmentAfterSilence(x, path) ==
  [x EXCEPT !.audioPaths = @ \o <<SilencePath(x.frag, x.speed), path>>,
            !.i = IF x.frag = 3 THEN @ + 1 ELSE @,
            !.frag = IF x.frag = 3 THEN 1 ELSE @ + 1]

(* audioPaths.push(fragment), audioPaths.push(silenceN), and on to the next  *)
(* fragment                                                                  *)
pushFragment(x, path) ==
  [x EXCEPT !.audioPaths = @ \o <<path, SilencePath(x.frag, x.speed)>>,
            !.i = IF x.frag = 3 THEN @ + 1 ELSE @,
            !.frag = IF x.frag = 3 THEN 1 ELSE @ + 1]

(* what ffmpeg reads at a path: a file of TEMP_DIR or of CACHE_DIR *)
fileAt(x, path) ==
  IF path \in DOMAIN x.tempDir THEN x.tempDir[path]
  ELSE IF \E k \in DOMAIN x.cacheFiles : CachePath(k) = path
       THEN AudioFile(x.cacheFiles[CHOOSE k \in DOMAIN x.cacheFiles : CachePath(k) = path])
       ELSE [kind |-> "missing", bytes |-> <<>>, num |-> 0, den |-> 1]

(* onProgress('Assembling audio', 75) and the call of concatenateAudio, with *)
(* the files that its inputs are at that moment                              *)
startConcat(x) ==
  [onProgress(x, 75) EXCEPT !.pc = "concat", !.concatInput = x.audioPaths,
                            !.concatFiles = [j \in 1..Len(x.audioPaths) |->
                                               fileAt(x, x.audioPaths[j])]]

(* the loop over the entries from fragment frag of entry i, up to the next   *)
(* await that does not resolve at once: a synthesizeSpeech, or the           *)
(* concatenation. synthesizeSpeech throws at once without a client.          *)
RECURSIVE exportLoop(_)
exportLoop(x) ==
  IF x.i >= Len(x.entries) THEN startConcat(x)
  ELSE LET x1 == IF x.frag = 1 THEN onProgress(x, LoopPercent(x.i, Len(x.entries))) ELSE x
           text == FragmentText(x.entries[x.i + 1], x.frag)
           language == FragmentLanguage(x.frag)
           cached == getCachedAudioPath(x.cacheFiles, text, language)
       IN IF cached # "null" THEN exportLoop(pushFragment(x1, cached))
          ELSE IF ~client THEN exportFailed(x1)
          ELSE [x1 EXCEPT !.pc = "tts",
                          !.gatewayCalls =
                             Append(@, generateCacheKey(text, SelectedVoiceId(language, ""),
                                                        LanguageCode(language)))]

(* exportAudioFile up to its first await: the directories, the pauses,       *)
(* onProgress('Preparing silence tracks', 0), generateSilence(pause1, ...)   *)
(* A call after an earlier one starts with new locals and a new outputPath;  *)
(* prior keeps what the earlier call handed to concatenateAudio.             *)
exportAudioFile(x, cards, speed) ==
  [x EXCEPT !.pc = "silence", !.entries = cards, !.speed = speed, !.silence = 1,
            !.i = 0, !.frag = 1, !.audioPaths = <<>>, !.tempFiles = <<>>,
            !.concatInput = <<>>, !.concatFiles = <<>>, !.progress = <<0>>,
            !.unlinked = {}, !.result = "none", !.outputFile = "none",
            !.runs = @ + 1, !.callsAtStart = Len(x.gatewayCalls),
            !.prior = IF x.runs = 0 THEN <<>>
                      ELSE <<[paths |-> x.concatInput, files |-> x.concatFiles]>>]

(* generateSilence settled: the file is there and the next one is asked for, *)
(* or the loop starts; a rejection goes to the catch block, and may leave    *)
(* what ffmpeg wrote                                                         *)
silenceDone(x, ok, written) ==
  LET path == SilencePath(x.silence, x.speed)
      file == SilenceFile(ExportPauses[x.silence], x.speed)
  IN IF ~ok
     THEN exportFailed(IF written THEN [x EXCEPT !.tempDir = (path :> file) @@ @] ELSE x)
     ELSE LET x1 == [x EXCEPT !.tempDir = (path :> file) @@ @]
          IN IF x.silence < 3 THEN [x1 EXCEPT !.silence = @ + 1]
             ELSE exportLoop([x1 EXCEPT !.silence = 0])

(* synthesizeSpeech settled: on a rejection the catch block; else the store  *)
(* into the cache, dataUrlToFile, tempFiles.push, and on with the loop       *)
synthesizeSettled(x, ok) ==
  IF ~ok THEN exportFailed(x)
  ELSE LET text == FragmentText(x.entries[x.i + 1], x.frag)
           language == FragmentLanguage(x.frag)
           voiceId == SelectedVoiceId(language, "")
           languageCode == LanguageCode(language)
           cacheKey == generateCacheKey(text, voiceId, languageCode)
           bytes == AudioOf(text)
           dataUrl == DataUrl(bytes)
           path == TempPath(x.frag, x.i)
           x1 == [x EXCEPT !.cacheFiles = (cacheKey :> bytes) @@ @,
                           !.cacheIndex = (cacheKey :> [text |-> text,
                                                        voiceId |-> voiceId,
                                                        languageCode |-> languageCode,
                                                        timestamp |-> x.now,
                                                        fileSize |-> Len(bytes),
                                                        lastAccessed |-> x.now]) @@ @,
                           !.now = @ + 1,
                           !.tempDir = (path :> AudioFile(Base64Bytes(dataUrl[2]))) @@ @,
                           !.tempFiles = Append(@, path)]
       IN exportLoop(pushFragment([x1 EXCEPT !.indexFile = x1.cacheIndex], path))

(* the files of a directory without the ones deleted *)
Without(dir, paths) == [p \in (DOMAIN dir) \ paths |-> dir[p]]

(* a cleanup that unlinks every path that was handed to concatenateAudio *)
concatSettledUnlinksInputs(x, ok, partial, failing) ==
  IF ~ok
  THEN exportFailed([x EXCEPT !.outputFile = IF partial THEN "partial" ELSE @])
  ELSE LET paths == {x.audioPaths[j] : j \in 1..Len(x.audioPaths)}
           x1 == onProgress([x EXCEPT !.outputFile = "complete"], 95)
           x2 == [x1 EXCEPT !.tempDir = Without(@, paths \ failing),
                            !.cacheFiles = [k \in {k \in DOMAIN @ : CachePath(k) \notin paths}
                                              |-> @[k]],
                            !.unlinked = paths]
       IN [onProgress(x2, 100) EXCEPT !.pc = "done", !.result = "success"]

(* concatenateAudio settled. On 'end': onProgress('Saving', 95), the unlink  *)
(* of every temp file and silence file (those in failing throw, which is     *)
(* logged), onProgress('Complete', 100), { success: true, path }. On         *)
(* 'error': the catch block, with whatever ffmpeg wrote at outputPath.       *)
concatSettled(x, ok, partial, failing) ==
  IF ~ok
  THEN exportFailed([x EXCEPT !.outputFile = IF partial THEN "partial" ELSE @])
  ELSE LET paths == {x.tempFiles[j] : j \in 1..Len(x.tempFiles)}
                      \cup {SilencePath(k, x.speed) : k \in 1..3}
           x1 == onProgress([x EXCEPT !.outputFile = "complete"], 95)
           x2 == [x1 EXCEPT !.tempDir = Without(@, paths \ failing),
                            !.unlinked = paths \cap DOMAIN x1.tempDir]
       IN [onProgress(x2, 100) EXCEPT !.pc = "done", !.result = "success"]

ExportStart ==
  /\ exportRun.pc = "idle"
  /\ \E es \in ExportInputs : \E speed \in ExportSpeeds :
       ExportAssign(exportAudioFile(ExportCur, es, speed))

SilenceDone ==
  /\ exportRun.pc = "silence"
  /\ \E ok \in BOOLEAN : \E written \in BOOLEAN :
       /\ (ok => written)
       /\ ExportAssign(silenceDone(ExportCur, ok, written))

SynthesizeSettled ==
  /\ exportRun.pc = "tts"
  /\ \E ok \in BOOLEAN : ExportAssign(synthesizeSettled(ExportCur, ok))

(* the deletions that may throw: none, one, or all of them *)
FailingDeletions ==
  {{}} \cup {{p} : p \in DOMAIN tempDir} \cup {DOMAIN tempDir}

ConcatSettled ==
  /\ exportRun.pc = "concat"
  /\ \E ok \in BOOLEAN : \E partial \in BOOLEAN : \E failing \in FailingDeletions :
       /\ (ok => (~partial))
       /\ ((~ok) => failing = {})
       /\ ExportAssign(concatSettled(ExportCur, ok, partial, failing))

(* exportAudioFile called again with the entries and the speed of a call     *)
(* that succeeded                                                            *)
MaxRuns == 2

ExportAgain ==
  /\ exportRun.pc = "done"
  /\ exportRun.result = "success"
  /\ exportRun.runs < MaxRuns
  /\ ExportAssign(exportAudioFile(ExportCur, exportRun.entries, exportRun.speed))

(* no export has been asked for *)
InitExporter ==
  /\ exportRun = NoExport
  /\ tempDir = EmptyMap
  /\ outputFile = "none"

NextExport ==
  \/ ExportStart
  \/ SilenceDone
  \/ SynthesizeSettled
  \/ ConcatSettled

NextExportTwice == NextExport \/ ExportAgain

(* ======================= initial state ======================= *)

(* the constructor's window, and one that ends at the start of the last entry *)
Windows ==
  {[startTime |-> 0, endTime |-> Infinity],
   [startTime |-> 0, endTime |-> (NumEntries - 1) * EntrySeconds]}

(* the engine after its constructor, setEntries(entries) and setTimeWindow(w) *)
InitEngine ==
  /\ entries = InputEntries
  /\ timeWindow \in Windows
  /\ isPlaying = FALSE
  /\ isPaused = FALSE
  /\ currentEntryIndex = (IF findIndex(entries, timeWindow) >= 0
                          THEN findIndex(entries, timeWindow) ELSE 0)
  /\ currentPhase = "idle"
  /\ playbackRate = InitialRate
  /\ elapsedTime = 0
  /\ timeUpdateInterval = FALSE
  /\ abortController = 0
  /\ aborted = {}
  /\ loops = [l \in LoopIds |-> NoLoop]
  /\ nLoops = 0
  /\ isReady \in BOOLEAN
  /\ audioElement = 0
  /\ audio = [l \in LoopIds |-> "none"]
  /\ sessionKind = "none"
  /\ phaseLog = <<>>
  /\ completeCount = 0
  /\ stoppedLoops = {}
  /\ lateEffects = {}
  /\ navTarget = -1
  /\ navKept = TRUE
  /\ navNext = <<>>
  /\ snapFrom = -1

(* both processes once TTSService.init() has asked isConfigured() *)
Init == InitEngine /\ InitCache /\ InitExporter /\ isReady = client

(* the cache once earlier requests have stored the speech of some fragments  *)
(* of the first card                                                         *)
CacheOf(frags) ==
  [k \in {generateCacheKey(FragmentText(Card(1), f),
                           SelectedVoiceId(FragmentLanguage(f), ""),
                           LanguageCode(FragmentLanguage(f))) : f \in frags} |->
     LET f == CHOOSE f \in frags :
                k = generateCacheKey(FragmentText(Card(1), f),
                                     SelectedVoiceId(FragmentLanguage(f), ""),
                                     LanguageCode(FragmentLanguage(f)))
         text == FragmentText(Card(1), f)
     IN [text |-> text, voiceId |-> SelectedVoiceId(FragmentLanguage(f), ""),
         languageCode |-> LanguageCode(FragmentLanguage(f)),
         timestamp |-> 0, fileSize |-> Len(AudioOf(text)), lastAccessed |-> 0]]

(* the main process before an export, with or without a key, the cache       *)
(* holding some fragments of the first card                                  *)
InitExport ==
  /\ InitEngine
  /\ timeWindow = [startTime |-> 0, endTime |-> Infinity]
  /\ client \in BOOLEAN
  /\ isReady = client
  /\ apiKey = (IF client THEN "sk_1" ELSE "null")
  /\ \E frags \in SUBSET (1..3) :
       /\ cacheIndex = CacheOf(frags)
       /\ cacheFiles = [k \in DOMAIN CacheOf(frags) |-> AudioOf(CacheOf(frags)[k].text)]
  /\ indexFile = cacheIndex
  /\ calls = [c \in CallIds |-> NoCall]
  /\ nCalls = 0
  /\ now = 1
  /\ gatewayCalls = <<>>
  /\ InitExporter

Next ==
  \/ PlayCmd
  \/ PauseCmd
  \/ ResumeCmd
  \/ StopCmd
  \/ NextCmd
  \/ PrevCmd
  \/ JumpCmd
  \/ TtsReady
  \/ \E l \in LoopIds : SynthesizeReplied(l)
  \/ \E l \in LoopIds : AudioEnded(l)
  \/ \E l \in LoopIds : AudioError(l)
  \/ \E l \in LoopIds : TimerFires(l)
  \/ \E l \in LoopIds : PollFires(l)

Spec == Init /\ [][Next]_vars


(* A play session whose synthesis and playback succeed and which is driven   *)
(* by one play() and by pause()/resume() (or play() to resume) only.         *)
PlayOrResume ==
  /\ nLoops = 0 \/ isPaused
  /\ PlayCmd

SynthesizeOk(l) ==
  /\ audio[l] = "synth"
  /\ Set(synthesizeReplied(Begin("event"), l, "audio"))

NextSession ==
  \/ PlayOrResume
  \/ PauseCmd
  \/ ResumeCmd
  \/ TtsReady
  \/ \E l \in LoopIds : SynthesizeOk(l)
  \/ \E l \in LoopIds : AudioEnded(l)
  \/ \E l \in LoopIds : TimerFires(l)
  \/ \E l \in LoopIds : PollFires(l)

SpecSession == Init /\ [][NextSession]_vars

(* The index under setEntries, setTimeWindow, next, prev and jumpToEntry,    *)
(* idle or during a session whose first synthesis request stays pending.      *)
NextWindow ==
  \/ SetEntries
  \/ SetTimeWindow
  \/ PlayCmd
  \/ StopCmd
  \/ NextCmd
  \/ PrevCmd
  \/ JumpCmd
  \/ TtsReady

SpecWindow == Init /\ [][NextWindow]_vars

(* A session in which the entries and the window are set and the index is    *)
(* moved, at any time; synthesis and playback succeed.                        *)
NavWindows == Windows \cup {[startTime |-> EntrySeconds, endTime |-> Infinity]}

NextNav ==
  \/ SetEntriesTo(InputEntries)
  \/ \E window \in NavWindows : SetTimeWindowTo(window)
  \/ PlayCmd
  \/ NextCmd
  \/ PrevCmd
  \/ JumpCmd
  \/ TtsReady
  \/ \E l \in LoopIds : SynthesizeOk(l)
  \/ \E l \in LoopIds : AudioEnded(l)
  \/ \E l \in LoopIds : TimerFires(l)

SpecNav == Init /\ [][NextNav]_vars

(* A play session with pause and resume during which the rate is set, at    *)
(* any time; synthesis and playback succeed.                                  *)
NextRate ==
  \/ SetRate
  \/ NextSession

SpecRate == Init /\ [][NextRate]_vars

(* Every command of the engine, in any order, over the loaded entries: the   *)
(* transport commands, setEntries, setTimeWindow and setRate; the synthesis  *)
(* requests stay pending.                                                    *)
NextTransport ==
  \/ PlayCmd
  \/ PauseCmd
  \/ ResumeCmd
  \/ StopCmd
  \/ NextCmd
  \/ PrevCmd
  \/ JumpCmd
  \/ SetEntriesTo(InputEntries)
  \/ \E window \in NavWindows : SetTimeWindowTo(window)
  \/ \E rate \in {4, 21} : SetRateTo(rate)
  \/ TtsReady

SpecTransport == Init /\ [][NextTransport]_vars

(* A play session with pause and resume during which the speed control is    *)
(* moved, at any time; synthesis and playback succeed.                       *)
NextSpeed ==
  \/ HandleSpeedChange
  \/ NextSession

SpecSpeed == Init /\ [][NextSpeed]_vars

(* A session with the interval of startTimeTracking(): play, pause, resume   *)
(* and stop, and every 100 ms the interval's callback.                       *)
MaxElapsed == 3

timeUpdate(s) ==
  IF s.isPlaying /\ ~s.isPaused THEN [s EXCEPT !.elapsedTime = @ + 1] ELSE s

TimeUpdate ==
  /\ timeUpdateInterval
  /\ elapsedTime < MaxElapsed
  /\ Set(timeUpdate(Begin("event")))

NextElapsed ==
  \/ PlayCmd
  \/ PauseCmd
  \/ ResumeCmd
  \/ StopCmd
  \/ TtsReady
  \/ TimeUpdate
  \/ \E l \in LoopIds : SynthesizeOk(l)
  \/ \E l \in LoopIds : AudioEnded(l)
  \/ \E l \in LoopIds : TimerFires(l)
  \/ \E l \in LoopIds : PollFires(l)

SpecElapsed == Init /\ [][NextElapsed]_vars

(* The same session with time: a timer fires when its time is up, and time  *)
(* does not pass a timer that is due.                                        *)
Waiting(l) == loops[l].pc \in {"delay", "delayPoll", "speakPoll"}

(* the un-paused time of a delay step after one more interval; it is not    *)
(* counted beyond two intervals over the scheduled time                      *)
SpentAfter(spent, scheduled) ==
  IF spent + PollMs > scheduled + 2 * PollMs THEN spent ELSE spent + PollMs

Tick ==
  /\ \E l \in LoopIds : Waiting(l)
  /\ \A l \in LoopIds : Waiting(l) => loops[l].timer > 0
  /\ Set([Begin("event") EXCEPT
            !.loops = [l \in LoopIds |->
               IF Waiting(l)
               THEN [@[l] EXCEPT
                       !.timer = IF @ > PollMs THEN @ - PollMs ELSE 0,
                       !.spent = IF loops[l].pc # "speakPoll" /\ ~isPaused
                                 THEN SpentAfter(@, loops[l].scheduled) ELSE @]
               ELSE @[l]]])

TimerDue(l) ==
  /\ loops[l].timer = 0
  /\ TimerFires(l)

PollDue(l) ==
  /\ loops[l].timer = 0
  /\ PollFires(l)

NextTimed ==
  \/ PlayOrResume
  \/ PauseCmd
  \/ ResumeCmd
  \/ TtsReady
  \/ \E l \in LoopIds : SynthesizeOk(l)
  \/ \E l \in LoopIds : AudioEnded(l)
  \/ \E l \in LoopIds : TimerDue(l)
  \/ \E l \in LoopIds : PollDue(l)
  \/ Tick

SpecTimed == Init /\ [][NextTimed]_vars

(* Sessions that the user plays, pauses, resumes, stops and skips forward,   *)
(* and whose synthesis and playback succeed.  The platform guarantees that   *)
(* a synthesize request is answered, that a playing element reaches its end  *)
(* and that an armed timer fires; nothing obliges the user to issue a        *)
(* command.                                                                  *)
NextAbort ==
  \/ PlayCmd
  \/ PauseCmd
  \/ ResumeCmd
  \/ StopCmd
  \/ NextCmd
  \/ TtsReady
  \/ \E l \in LoopIds : SynthesizeOk(l)
  \/ \E l \in LoopIds : AudioEnded(l)
  \/ \E l \in LoopIds : TimerFires(l)
  \/ \E l \in LoopIds : PollFires(l)

Fairness ==
  \A l \in LoopIds :
    /\ WF_vars(SynthesizeOk(l))
    /\ WF_vars(AudioEnded(l))
    /\ WF_vars(TimerFires(l))
    /\ WF_vars(PollFires(l))

FairSpec == Init /\ [][NextAbort]_vars /\ Fairness

(* Sessions under pause, resume, next, prev and jumpToEntry, whose synthesis *)
(* and playback succeed, with the same guarantees of the platform.           *)
NextSkip ==
  \/ PlayOrResume
  \/ PauseCmd
  \/ ResumeCmd
  \/ NextCmd
  \/ PrevCmd
  \/ JumpCmd
  \/ TtsReady
  \/ \E l \in LoopIds : SynthesizeOk(l)
  \/ \E l \in LoopIds : AudioEnded(l)
  \/ \E l \in LoopIds : TimerFires(l)
  \/ \E l \in LoopIds : PollFires(l)

FairSkipSpec == Init /\ [][NextSkip]_vars /\ Fairness

(* The main process alone: the IPC calls arrive in any order. *)
SpecCache == Init /\ [][NextCache]_vars

SpecStore == Init /\ [][NextStore]_vars

SpecExport == InitExport /\ [][NextExport]_vars

InitDisk == InitEngine /\ InitDiskCache /\ InitExporter /\ isReady = client

SpecDisk == InitDisk /\ [][NextDisk]_vars

SpecExportTwice == InitExport /\ [][NextExportTwice]_vars

(* ======================= properties ======================= *)

IsPrefix(a, b) == Len(a) <= Len(b) /\ SubSeq(b, 1, Len(a)) = a

RECURSIVE ExpectedLog(_)
ExpectedLog(n) ==
  IF n = 0 THEN <<>>
  ELSE ExpectedLog(n - 1) \o [i \in 1..Len(Phases) |-> <<n - 1, Phases[i]>>]

AllInWindow ==
  \A i \in 0..(Len(entries) - 1) :
    /\ EntryAt(i).cumulativeStartTime >= timeWindow.startTime
    /\ EntryAt(i).cumulativeStartTime < timeWindow.endTime

(* every play() call that was made has run its phase loop to the end *)
SessionOver == nLoops > 0 /\ \A l \in LoopIds : loops[l].pc = "none"

Idle == ~isPlaying /\ ~isPaused /\ currentPhase = "idle"

(* C1: a session started by play() over entries that all start inside the   *)
(* window, with no other transport command, runs the six phases of entry 0,  *)
(* then of entry 1, and so on in array order; it ends after the last entry's *)
(* between-entries phase, and onComplete has then fired exactly once (and    *)
(* not before).                                                              *)
C1_PhaseOrder ==
  (sessionKind = "play" /\ AllInWindow) =>
     /\ IsPrefix(phaseLog, ExpectedLog(Len(entries)))
     /\ completeCount = (IF SessionOver THEN 1 ELSE 0)
     /\ SessionOver => (phaseLog = ExpectedLog(Len(entries)) /\ Idle)

C1_Witness ==
  /\ sessionKind = "play" /\ AllInWindow /\ SessionOver
  /\ completeCount = 1
  /\ Len(phaseLog) = 6 * NumEntries

(* C11: in a session driven by play(), pause() and resume() only, the phases *)
(* observed are those of the un-paused session, each once and in the same   *)
(* order (none dropped, skipped or repeated), and no step starts a phase     *)
(* (setPhase) while isPaused is true.                                        *)
C11_PauseKeepsPhases ==
  /\ [](  (sessionKind \in {"play", "pauseResume"} /\ AllInWindow) =>
            /\ IsPrefix(phaseLog, ExpectedLog(Len(entries)))
            /\ SessionOver => phaseLog = ExpectedLog(Len(entries)))
  /\ [][phaseLog' # phaseLog => ~isPaused']_vars

C11_Witness ==
  /\ sessionKind = "pauseResume" /\ AllInWindow /\ SessionOver
  /\ phaseLog = ExpectedLog(NumEntries)

(* C12: stop() resets the elapsed counter: after a step that is a stop(),    *)
(* state.elapsedTime is 0.                                                    *)
C12_StopResetsElapsed == [][StopCmd => elapsedTime' = 0]_vars

(* loop l starts a phase in this step *)
StartsPhase(l) ==
  /\ loops'[l].pc \in {"speak", "delay"}
  /\ \/ loops[l].pc \in {"none", "ready"}
     \/ loops'[l].phase # loops[l].phase
     \/ loops'[l].entry # loops[l].entry

(* C13: every entry for which a phase is started starts inside the window in *)
(* force, startTime <= cumulativeStartTime < endTime, and a phase loop goes   *)
(* from an entry only to one further on in the array, whatever setEntries,    *)
(* setTimeWindow, play, next, prev and jumpToEntry calls came before.         *)
C13_TraversalInsideWindow ==
  [][\A l \in LoopIds :
       StartsPhase(l) =>
         /\ InWindow(loops'[l].start, timeWindow')
         /\ (loops[l].pc \notin {"none", "ready"} /\ loops'[l].entry # loops[l].entry)
              => loops'[l].entry > loops[l].entry]_vars

(* C14: next(), prev() and jumpToEntry(i) never fail and keep the index in   *)
(* the array: 0 <= currentEntryIndex < entries.length on a non-empty list,    *)
(* also after requests beyond either end (i = -1, i = entries.length, next()  *)
(* at the last entry, prev() at the first); and the entry prev() reads,       *)
(* entries[currentEntryIndex - 1], exists whenever that index is not negative.*)
C14_IndexInBounds ==
  /\ currentEntryIndex >= 0
  /\ Len(entries) > 0 => currentEntryIndex < Len(entries)
  /\ currentEntryIndex - 1 < Len(entries)

C14_Witness ==
  /\ Len(entries) = Len(ExampleEntries)
  /\ isPlaying /\ navTarget = Len(entries) - 1
  /\ currentEntryIndex = Len(entries) - 1

(* entry i is the first entry of es that starts inside window w *)
FirstInside(i, es, w) ==
  /\ InWindow(es[i + 1].cumulativeStartTime, w)
  /\ \A j \in 0..(i - 1) : ~InWindow(es[j + 1].cumulativeStartTime, w)

(* C15: a setTimeWindow(w) while nothing is playing and the current entry     *)
(* starts outside w leaves currentEntryIndex at the first (lowest-index)      *)
(* entry whose cumulativeStartTime is in [w.startTime, w.endTime); with the   *)
(* entries at 0, 5, 12, 18, 25 s and w = {10, 20} that is index 2.            *)
C15_WindowSnapsToFirstInside ==
  [][(/\ SetTimeWindow
      /\ ~isPlaying
      /\ Len(entries) > 0
      /\ ~InWindow(EntryAt(currentEntryIndex).cumulativeStartTime, timeWindow'))
     => /\ \A i \in 0..(Len(entries) - 1) :
             FirstInside(i, entries, timeWindow') => currentEntryIndex' = i
        /\ (entries = ExampleEntries /\ timeWindow' = [startTime |-> 10, endTime |-> 20])
             => currentEntryIndex' = 2]_vars

C15_Witness ==
  /\ entries = ExampleEntries
  /\ timeWindow = [startTime |-> 10, endTime |-> 20]
  /\ ~isPlaying
  /\ snapFrom \in {0, 1, 4}
  /\ currentEntryIndex = 2

(* C16: a setRate(r) during an entry leaves the phase in progress alone, and *)
(* every pause phase that starts afterwards, the remaining ones of the entry  *)
(* being played included, waits its base constant divided by the clamped new *)
(* rate: a delay is scheduled with the playbackRate of the moment it starts.  *)
C16_RateAppliesToLaterPauses ==
  [][/\ SetRate => (loops' = loops /\ audio' = audio /\ currentPhase' = currentPhase)
     /\ \A l \in LoopIds :
          (StartsPhase(l) /\ loops'[l].pc = "delay")
            => loops'[l].scheduled = DelayMs(PauseOf(loops'[l].phase), playbackRate')]_vars

(* C17: playbackRate is always within [0.5, 2.0]; setRate(r) stores r clamped *)
(* into that range, for r below, inside and above it; and no other operation  *)
(* changes playbackRate.                                                      *)
C17_RateClamped ==
  /\ [](MIN_RATE <= playbackRate /\ playbackRate <= MAX_RATE)
  /\ [][/\ \A r \in RateInputs :
             SetRateTo(r) => playbackRate' = (IF r < MIN_RATE THEN MIN_RATE
                                              ELSE IF r > MAX_RATE THEN MAX_RATE ELSE r)
        /\ playbackRate' # playbackRate => SetRate]_vars

C17_Witness ==
  /\ playbackRate = MAX_RATE
  /\ isPlaying /\ isPaused
  /\ \E l \in LoopIds : loops[l].pc = "delayPoll" /\ loops[l].rate = MIN_RATE

(* C18: the cache key is a function of (text, voiceId, languageCode) that is *)
(* injective: two calls whose triples differ in a field have different keys, *)
(* also when a field holds the separator, as (text 'a|b', voice 'c') and      *)
(* (text 'a', voice 'b|c').                                                   *)
C18_FingerprintInjective ==
  \A c1, c2 \in CallIds :
    (/\ calls[c1].pc \notin {"none", "notConfigured"}
     /\ calls[c2].pc \notin {"none", "notConfigured"}
     /\ calls[c1].cacheKey = calls[c2].cacheKey)
      => /\ calls[c1].text = calls[c2].text
         /\ calls[c1].voiceId = calls[c2].voiceId
         /\ calls[c1].languageCode = calls[c2].languageCode

(* C19: a store and the next lookup round-trip: a miss that stores bytes B  *)
(* under key fp leaves B in the file of fp and returns B, a lookup of fp      *)
(* returns the bytes that file holds, and lookups leave the files alone;      *)
(* getCacheStats().totalFiles grows by one in a store under a key that is not *)
(* in the index and by zero in a store under a key that is.                   *)
C19_StoreLookupRoundTrip ==
  [][/\ \A c \in CallIds :
          /\ (calls[c].pc = "gateway" /\ calls'[c].pc = "stored")
               => /\ calls[c].cacheKey \in DOMAIN cacheFiles'
                  /\ calls'[c].result = DataUrl(cacheFiles'[calls[c].cacheKey])
                  /\ totalFiles(cacheIndex') = totalFiles(cacheIndex)
                       + (IF calls[c].cacheKey \in DOMAIN cacheIndex THEN 0 ELSE 1)
          /\ (calls[c].pc = "none" /\ calls'[c].pc = "hit")
               => calls'[c].result = DataUrl(cacheFiles[calls'[c].cacheKey])
     /\ SynthesizeSpeech => cacheFiles' = cacheFiles]_vars

C19_Witness ==
  \E c1, c2 \in CallIds :
    /\ calls[c1].pc = "stored" /\ calls[c2].pc = "hit"
    /\ calls[c1].cacheKey = calls[c2].cacheKey
    /\ calls[c2].result = calls[c1].result
    /\ calls[c1].result = DataUrl(<<2, 253>>)
    /\ totalFiles(cacheIndex) = 1

(* C20: every entry of the cache index has its blob file, after any          *)
(* synthesizeSpeech and clearCache calls, a crash between the blob write and *)
(* the index write of a store, and a clearCache in which one file deletion   *)
(* fails.                                                                     *)
C20_IndexEntriesHaveBlobs == DOMAIN cacheIndex \subseteq DOMAIN cacheFiles

(* C21: a cache hit does not invoke the gateway, and the data URL it returns *)
(* encodes exactly the bytes of the stored blob, which it leaves unchanged.   *)
C21_HitReturnsStoredBytes ==
  [][\A c \in CallIds :
       (calls[c].pc = "none" /\ calls'[c].pc = "hit")
         => /\ gatewayCalls' = gatewayCalls
            /\ calls'[c].result[1] = "data:audio/mpeg;base64,"
            /\ Base64Bytes(calls'[c].result[2]) = cacheFiles[calls'[c].cacheKey]
            /\ cacheFiles' = cacheFiles]_vars

C21_Witness ==
  \E c \in CallIds :
    /\ calls[c].pc = "hit"
    /\ Base64Bytes(calls[c].result[2]) = <<77, 0, 255>>
    /\ cacheFiles[calls[c].cacheKey] = <<77, 0, 255>>
    /\ Len(gatewayCalls) = 1

CacheUnchanged == UNCHANGED <<cacheFiles, cacheIndex, indexFile>>

(* C22: when client.textToSpeech.convert fails, the call is rejected and the *)
(* cache is as before: no blob file is written and no index entry is added   *)
(* or changed, in memory or in the index file.                                *)
C22_FailureLeavesCache ==
  [][\A c \in CallIds : \A outcome \in GatewayOutcomes :
       (~outcome.ok /\ calls[c].pc = "gateway" /\ convertReplied(c, outcome))
         => (calls'[c].pc = "failed" /\ CacheUnchanged)]_vars

C22_Witness ==
  \E c1, c2 \in CallIds :
    /\ calls[c1].pc = "stored" /\ calls[c2].pc = "failed"
    /\ calls[c1].cacheKey # calls[c2].cacheKey
    /\ DOMAIN cacheFiles = {calls[c1].cacheKey}
    /\ DOMAIN cacheIndex = {calls[c1].cacheKey}

(* C23: when the gateway returns a stream of zero bytes in total, the call   *)
(* fails instead of returning audio, and nothing is stored for its key: no   *)
(* call returns the data URL of no bytes from a store, and no cache file is  *)
(* empty.                                                                     *)
C23_EmptyStreamFails ==
  /\ \A c \in CallIds : calls[c].pc = "stored" => calls[c].result # DataUrl(<<>>)
  /\ \A k \in DOMAIN cacheFiles : cacheFiles[k] # <<>>

(* C24: while no credential is configured (client is null) every call of     *)
(* synthesizeSpeech fails at once with the configuration error, invokes no   *)
(* gateway and leaves the cache alone, also when the audio asked for is in   *)
(* the cache.                                                                 *)
C24_NotConfiguredFailsFirst ==
  [][\A c \in CallIds :
       (~client /\ calls[c].pc = "none" /\ calls'[c].pc # "none")
         => /\ calls'[c].pc = "notConfigured"
            /\ gatewayCalls' = gatewayCalls
            /\ CacheUnchanged]_vars

C24_Witness ==
  \E c \in CallIds :
    /\ calls[c].pc = "notConfigured"
    /\ calls[c].cacheKey \in DOMAIN cacheFiles
    /\ calls[c].cacheKey \in DOMAIN cacheIndex
    /\ ~client

(* C25: after a clearCache() that returns, getCacheStats().totalFiles is 0   *)
(* and no blob file is left, whatever the index and the directory held: also *)
(* blobs without an index entry and index entries without a blob.             *)
C25_ClearLeavesNothing ==
  [][ClearCache => (totalFiles(cacheIndex') = 0 /\ DOMAIN cacheFiles' = {})]_vars

C25_Witness ==
  /\ DOMAIN cacheFiles = {} /\ totalFiles(cacheIndex) = 0 /\ totalFiles(indexFile) = 0
  /\ Len(gatewayCalls) = MaxCalls
  /\ \A c \in CallIds : calls[c].pc = "none"

(* C26: clearCache() is best-effort: when the deletion of one blob file      *)
(* fails, the other files are still deleted and the index is still reset and *)
(* saved.                                                                     *)
C26_ClearIsBestEffort ==
  [][ClearCacheFails =>
       /\ Cardinality(DOMAIN cacheFiles') <= 1
       /\ cacheIndex' = EmptyMap
       /\ indexFile' = EmptyMap]_vars

(* A loop that can still resume: it waits for a timer, or for a speak whose  *)
(* request or element still exists.                                           *)
CanAdvance(l) ==
  \/ loops[l].pc \in {"delay", "speakPoll", "delayPoll"}
  \/ loops[l].pc = "speak" /\ audio[l] \in {"synth", "playing", "paused"}

(* C2: two synthesizeSpeech calls with the same (text, voice, language) that  *)
(* overlap on a cache miss cause one gateway invocation: no two calls wait   *)
(* for client.textToSpeech.convert under the same cache key.                 *)
C2_OneGatewayCallPerFingerprint ==
  \A c1, c2 \in CallIds :
    (c1 # c2 /\ calls[c1].pc = "gateway" /\ calls[c2].pc = "gateway")
      => calls[c1].cacheKey # calls[c2].cacheKey

(* C3: under every interleaving of the transport commands with the engine's  *)
(* suspension points, at most one phase loop is live.                        *)
C3_OneLiveLoop == Cardinality({l \in LoopIds : CanAdvance(l)}) <= 1

(* C4: when next(), prev() or jumpToEntry(i) changes currentEntryIndex       *)
(* during a play session, paused or not, isPlaying and isPaused keep their   *)
(* values and the next phase the engine executes is the english phase of the *)
(* entry at the new index.                                                   *)
C4_MoveRestartsAtNewEntry ==
  /\ navKept
  /\ (navTarget # -1 /\ navNext # <<>>) => navNext = <<navTarget, "english">>

(* C5: a pause() in the middle of a delay step suspends the delay: when the  *)
(* step is over, the time the engine spent in it un-paused is the scheduled  *)
(* duration (here: to within one polling interval).                          *)
C5_DelaySuspendedWhilePaused ==
  [][\A l \in LoopIds :
       (/\ loops[l].pc \in {"delay", "delayPoll"}
        /\ ~isPaused
        /\ TimerDue(l) \/ PollDue(l))
       => /\ loops[l].scheduled - loops[l].spent <= PollMs
          /\ loops[l].spent - loops[l].scheduled <= PollMs]_vars

(* C6: stop() leaves the engine idle with currentEntryIndex unchanged, and   *)
(* no later step of a loop of the stopped session writes currentEntryIndex.  *)
C6_StopKeepsIndex ==
  [][/\ StopCmd => (Idle' /\ currentEntryIndex' = currentEntryIndex)
     /\ "indexWrite" \notin lateEffects']_vars

(* C7: after stop() no callback is invoked on behalf of the stopped session: *)
(* no onComplete, no onPhaseChange, no onEntryChange.                        *)
C7_NoCallbackAfterStop ==
  lateEffects \cap {"onComplete", "onPhaseChange", "onEntryChange"} = {}

(* C8: at most one audio element is active (created and not yet released).   *)
C8_OneAudioElement ==
  Cardinality({l \in LoopIds : audio[l] \in {"playing", "paused"}}) <= 1

(* a loop suspended in speakWithAbort, delayWithAbort or waitWhilePaused *)
Blocked(l) == loops[l].pc \in {"speak", "delay", "speakPoll", "delayPoll"}

(* C9: once a session's AbortController is aborted, every suspension point  *)
(* the session is blocked in eventually returns or rejects: its loop does   *)
(* not stay blocked forever.                                                 *)
C9_AbortedLoopUnblocks ==
  \A l \in LoopIds : (Blocked(l) /\ loops[l].sig \in aborted) ~> ~Blocked(l)

(* C10: when a speak phase fails (the synthesize request rejects, play()     *)
(* rejects or the element reports an error) the engine returns to idle.      *)
C10_FailureReturnsToIdle ==
  [][\A l \in LoopIds :
       (/\ loops[l].pc = "speak"
        /\ SynthesizeReplied(l) \/ AudioError(l)
        /\ loops'[l].pc = "none") => Idle']_vars

(* ----------------------- audio export ----------------------- *)

FileAt(path) == fileAt(ExportCur, path)

(* C27: when concatenateAudio is called its list has six paths for every     *)
(* entry, in input order: the file that holds the speech of the english      *)
(* word, the first pause, the speech of the spanish word, the second pause,  *)
(* the speech of the sentence, the third pause; every file is there.         *)
C27_SegmentsInOrder ==
  /\ exportRun.pc \in {"idle", "silence", "tts"} =>
       (exportRun.concatInput = <<>> /\ outputFile = "none")
  /\ exportRun.pc = "concat" =>
       LET list == exportRun.concatInput
           n == Len(exportRun.entries)
       IN /\ Len(list) = 6 * n
          /\ \A i \in 0..(n - 1) : \A f \in 1..3 :
               /\ FileAt(list[6 * i + 2 * f - 1])
                    = AudioFile(AudioOf(FragmentText(exportRun.entries[i + 1], f)))
               /\ list[6 * i + 2 * f] = SilencePath(f, exportRun.speed)
               /\ FileAt(list[6 * i + 2 * f])
                    = SilenceFile(ExportPauses[f], exportRun.speed)

C27_Witness ==
  /\ exportRun.pc = "concat"
  /\ Len(exportRun.entries) = 2
  /\ Len(exportRun.tempFiles) \in 1..5
  /\ exportRun.speed = 15

(* C28: the percents reported are integers of 0..100, never one below the    *)
(* one before it, and 100 is reported only by an export that succeeded.      *)
C28_ProgressMonotone ==
  LET progress == exportRun.progress
  IN /\ \A j \in 1..Len(progress) : progress[j] \in 0..100
     /\ \A j \in 1..(Len(progress) - 1) : progress[j] <= progress[j + 1]
     /\ (\E j \in 1..Len(progress) : progress[j] = 100) => exportRun.result = "success"

C28_Witness ==
  /\ exportRun.result = "success"
  /\ Len(exportRun.entries) = 2
  /\ exportRun.progress = <<0, 0, 35, 75, 95, 100>>

(* C29: when exportAudioFile has returned, every file it left in TEMP_DIR is *)
(* one whose deletion was attempted.                                         *)
C29_CleanupOnEveryReturn ==
  exportRun.pc = "done" => \A p \in DOMAIN tempDir : p \in exportRun.unlinked

(* C30: an export that failed reported no 100 and left no file at            *)
(* outputPath, and an export that succeeded has the whole file there.        *)
C30_FailureLeavesNoOutput ==
  /\ exportRun.result = "failure" =>
       /\ outputFile = "none"
       /\ \A j \in 1..Len(exportRun.progress) : exportRun.progress[j] # 100
  /\ exportRun.result = "success" => outputFile = "complete"

(* the paths that exportAudioFile gives to the files it writes for misses *)
TempPaths == {TempPath(f, i) : f \in 1..3, i \in 0..MaxCards}

(* C31: an export asks the gateway only for fragments that have no blob in   *)
(* the cache; a second export of the same entries at the same speed asks it  *)
(* for nothing and hands concatenateAudio the same files in the same order   *)
(* as the first, under the same paths when the first found all in the cache. *)
C31_CacheFirst ==
  [][/\ \A j \in (Len(gatewayCalls) + 1)..Len(gatewayCalls') :
          gatewayCalls'[j] \notin DOMAIN cacheFiles
     /\ (exportRun'.pc = "concat" /\ exportRun'.runs = 2) =>
          /\ Len(gatewayCalls') = exportRun'.callsAtStart
          /\ exportRun'.concatFiles = exportRun'.prior[1].files
          /\ (\A j \in 1..Len(exportRun'.prior[1].paths) :
                 exportRun'.prior[1].paths[j] \notin TempPaths)
               => exportRun'.concatInput = exportRun'.prior[1].paths]_vars

C31_Witness ==
  /\ exportRun.pc = "concat"
  /\ exportRun.runs = 2
  /\ Len(exportRun.entries) = 2
  /\ Len(gatewayCalls) = 4
  /\ exportRun.concatInput # exportRun.prior[1].paths

(* ----------------------- cache: index and disk ----------------------- *)

(* C32: every synthesizeSpeech that is served from a stored blob leaves an   *)
(* index entry for its key whose lastAccessed is the time of the call, in    *)
(* the index and in the index file.                                          *)
C32_HitTouchesIndex ==
  [][\A c \in CallIds :
       (calls[c].pc = "none" /\ calls'[c].pc = "hit")
         => /\ calls'[c].cacheKey \in DOMAIN cacheIndex'
            /\ cacheIndex'[calls'[c].cacheKey].lastAccessed = now
            /\ indexFile' = cacheIndex']_vars

(* C33: a synthesizeSpeech for a key that has an index entry and no blob     *)
(* calls the gateway for it, and when the gateway answers, the blob is there *)
(* with the answer's bytes and the entry is the new one.                     *)
C33_DanglingEntryIsMiss ==
  [][\A c \in CallIds :
       /\ (/\ calls[c].pc = "none" /\ calls'[c].pc \notin {"none", "notConfigured", "readError"}
           /\ calls'[c].cacheKey \in DOMAIN cacheIndex
           /\ calls'[c].cacheKey \notin DOMAIN cacheFiles)
            => /\ calls'[c].pc = "gateway"
               /\ gatewayCalls' = Append(gatewayCalls, calls'[c].cacheKey)
       /\ (calls[c].pc = "gateway" /\ calls'[c].pc = "stored")
            => /\ calls[c].cacheKey \in DOMAIN cacheFiles'
               /\ calls'[c].result = DataUrl(cacheFiles'[calls[c].cacheKey])
               /\ cacheIndex'[calls[c].cacheKey].timestamp = now
               /\ cacheIndex'[calls[c].cacheKey].fileSize = Len(cacheFiles'[calls[c].cacheKey])
               /\ indexFile' = cacheIndex']_vars

C33_Witness ==
  \E c \in CallIds :
    /\ calls[c].pc = "stored"
    /\ calls[c].cacheKey = DiskKeys["es"]
    /\ cacheFiles[DiskKeys["es"]] = <<77, 0, 255>>
    /\ cacheIndex[DiskKeys["es"]].fileSize = 3
    /\ cacheIndex[DiskKeys["es"]].timestamp > 0

(* C34: a synthesizeSpeech whose read of the cached blob throws goes on to   *)
(* the gateway and does not end with the read error.                         *)
C34_ReadErrorIsMiss ==
  [][\A c \in CallIds :
       (calls[c].pc = "none" /\ calls'[c].pc # "none" /\ client
          /\ calls'[c].cacheKey \in DOMAIN cacheFiles)
         => calls'[c].pc \in {"hit", "gateway"}]_vars

(* ----------------------- engine: sessions and frames ----------------------- *)

(* C35: a session that plays and is not paused comes to its end or to a      *)
(* pause: the engine does not stay playing, un-paused, for ever.             *)
C35_SessionEnds == (isPlaying /\ ~isPaused) ~> (~isPlaying \/ isPaused)

(* C36: while the engine is paused no audio element is playing.              *)
C36_PausedIsSilent == isPaused => \A l \in LoopIds : audio[l] # "playing"

(* C37: setTimeWindow(w) keeps currentEntryIndex when the current entry      *)
(* starts inside w, when a session is playing, and when no entry starts      *)
(* inside w.                                                                 *)
C37_WindowKeepsIndex ==
  [][(/\ SetTimeWindow
      /\ \/ isPlaying
         \/ \A i \in 1..Len(entries) : ~InWindow(entries[i].cumulativeStartTime, timeWindow')
         \/ /\ currentEntryIndex < Len(entries)
            /\ InWindow(EntryAt(currentEntryIndex).cumulativeStartTime, timeWindow'))
     => currentEntryIndex' = currentEntryIndex]_vars

(* C38: the speed-change handler leaves currentEntryIndex as it was.         *)
C38_SpeedKeepsIndex ==
  [][HandleSpeedChange => currentEntryIndex' = currentEntryIndex]_vars

(* C39: in every state of the engine isPaused implies isPlaying.             *)
C39_PausedImpliesPlaying == isPaused => isPlaying

C39_Witness ==
  /\ isPaused /\ isPlaying
  /\ nLoops = 2
  /\ playbackRate = MAX_RATE
  /\ currentEntryIndex = 1
  /\ timeWindow = [startTime |-> EntrySeconds, endTime |-> Infinity]

(* the temp files and the silence files of the export *)
ExportOwnFiles(run) ==
  {run.tempFiles[j] : j \in 1..Len(run.tempFiles)} \cup {SilencePath(k, run.speed) : k \in 1..3}

(* C40: no step of an export deletes or changes a blob of the cache; the     *)
(* files that a step removes are temp files of misses and silence files of   *)
(* the export, the cleanup attempts exactly those, one temp file having been *)
(* written per gateway call; and after the export every cached file that was *)
(* handed to concatenateAudio is in the cache with the same bytes.           *)
C40_ExportKeepsCache ==
  [][/\ \A k \in DOMAIN cacheFiles :
          k \in DOMAIN cacheFiles' /\ cacheFiles'[k] = cacheFiles[k]
     /\ (DOMAIN tempDir \ DOMAIN tempDir') \subseteq ExportOwnFiles(exportRun)
     /\ (exportRun.pc = "concat" /\ exportRun'.result = "success") =>
          /\ exportRun'.unlinked = ExportOwnFiles(exportRun)
          /\ Len(exportRun.tempFiles) = Len(gatewayCalls) - exportRun.callsAtStart
          /\ \A j \in 1..Len(exportRun.concatInput) :
               exportRun.concatInput[j] \notin ExportOwnFiles(exportRun)
                 => fileAt(ExportCur', exportRun.concatInput[j]) = exportRun.concatFiles[j]]_vars

C40_Witness ==
  /\ exportRun.result = "success"
  /\ Len(exportRun.entries) = 2
  /\ Len(exportRun.tempFiles) \in 1..5
  /\ DOMAIN tempDir = {}
  /\ Cardinality(DOMAIN cacheFiles) = 6

====
